---- MODULE Spec2Model ----
(***************************************************************************)
(* A model of cfdi-control: the CFDI record validator/aggregator           *)
(* (core/data_models.py), the XML field mapper (core/xml_parser.py), the   *)
(* Excel template writer (core/excel_processor.py) and the pipeline worker *)
(* of the front-end (gui/main_window.py).                                  *)
(*                                                                         *)
(* Encoding of Python values.  A str is a sequence of one-character        *)
(* strings, except that a fixed literal of the source (a message, a file   *)
(* extension) may appear as one multi-character element.  A value that is  *)
(* not a str is a one-element sequence whose element is no character:      *)
(* PyNone for None, PyList for an object float() rejects with TypeError.   *)
(***************************************************************************)
EXTENDS Integers, Sequences, FiniteSets, TLC

VARIABLES
    data_in,      \* the raw_data_list handed to process_raw_data
    data_out,     \* what the call produced: the result, or a propagated exception
    row_in,       \* the raw record handed to CFDIData.from_dict
    row_out,      \* what to_excel_row returned for the object built from it
    sheet_in,     \* the arguments of find_month_tab: sheet names, month, year
    sheet_out,    \* what find_month_tab returned
    tpl_in,       \* the template_path handed to validate_template_structure
    tpl_out,      \* the validation_result it returned
    xml_in,       \* the xml_file_paths handed to parse_multiple_files
    pipe_out,     \* the raw records parsed from them and the outcome of process_raw_data
    files,        \* the file system: what each existing path holds
    clock,        \* the wall clock datetime.now() reads, in ticks
    xl_in,        \* the arguments of process_cfdi_to_excel
    xl_log,       \* per call made: the instant it read the clock and the report it returned
    gui,          \* the fields and widgets of CFDIApplication, and the dialogs shown
    worker,       \* the thread running _process_files_worker: position and locals
    after_queue,  \* the callbacks posted with root.after(0, ...) and not yet run
    current_year, \* datetime.now().year
    threads,      \* a session of the window: the threads process_files started, in order
    events        \* a session of the window: the input events handled so far

dataVars == <<data_in, data_out, row_in, row_out>>

sheetVars == <<sheet_in, sheet_out, tpl_in, tpl_out>>

pipeVars == <<xml_in, pipe_out>>

excelVars == <<files, clock, xl_in, xl_log>>

runVars == <<gui, worker, after_queue, current_year, threads, events>>

vars == <<data_in, data_out, row_in, row_out, sheet_in, sheet_out, tpl_in, tpl_out, xml_in, pipe_out,
          files, clock, xl_in, xl_log, gui, worker, after_queue, current_year,
          threads, events>>

(***************************************************************************)
(* Strings                                                                 *)
(***************************************************************************)
PyNone == <<"<None>">>
PyList == <<"<list>">>

IsStr(v) == v /= PyNone /\ v /= PyList

\* Python truthiness of a str / None / non-empty list
Truthy(v) == v /= <<>> /\ v /= PyNone

\* the characters the model's strings use, in code-point order
AsciiOrder ==
    << " ", "-", ".", "0", "1", "2", "3", "4", "5", "6", "7", "8", "9", ":",
       "A", "B", "C", "D", "E", "F", "G", "H", "I", "J", "K", "L", "M",
       "N", "O", "P", "Q", "R", "S", "T", "U", "V", "W", "X", "Y", "Z", "_",
       "a", "b", "c", "d", "e", "f", "g", "h", "i", "j", "k", "l", "m",
       "n", "o", "p", "q", "r", "s", "t", "u", "v", "w", "x", "y", "z" >>

Ord(c) == CHOOSE i \in 1..Len(AsciiOrder) : AsciiOrder[i] = c

DigitChars == {"0", "1", "2", "3", "4", "5", "6", "7", "8", "9"}

DigitVal(c) == Ord(c) - Ord("0")

DigitChar(d) == AsciiOrder[Ord("0") + d]

Front(s) == SubSeq(s, 1, Len(s) - 1)

Last(s) == s[Len(s)]

\* str.strip() for the blank the alphabet has
RECURSIVE LStrip(_)
LStrip(s) == IF s /= <<>> /\ Head(s) = " " THEN LStrip(Tail(s)) ELSE s

RECURSIVE RStrip(_)
RStrip(s) == IF s /= <<>> /\ Last(s) = " " THEN RStrip(Front(s)) ELSE s

Strip(s) == RStrip(LStrip(s))

\* str < str: lexicographic by code point (used by min / max over date strings)
RECURSIVE StrLess(_, _)
StrLess(a, b) ==
    IF b = <<>> THEN FALSE
    ELSE IF a = <<>> THEN TRUE
    ELSE IF Head(a) /= Head(b) THEN Ord(Head(a)) < Ord(Head(b))
    ELSE StrLess(Tail(a), Tail(b))

StrMin(S) == CHOOSE x \in S : \A y \in S : y = x \/ StrLess(x, y)

StrMax(S) == CHOOSE x \in S : \A y \in S : y = x \/ StrLess(y, x)

\* str(n) for n >= 0
RECURSIVE StrOfNat(_)
StrOfNat(n) == IF n < 10 THEN <<DigitChar(n)>>
               ELSE StrOfNat(n \div 10) \o <<DigitChar(n % 10)>>

\* f"{n:02d}" for n >= 0
Pad2(n) == IF n < 10 THEN <<"0">> \o StrOfNat(n) ELSE StrOfNat(n)

(***************************************************************************)
(* float(): the decimal subset  [blank] [sign] digits [. digits] [blank]   *)
(* of what Python accepts.  The strings the model feeds it are decimal     *)
(* literals of at most two fraction digits and strings that are no number  *)
(* at all; exponent, inf, nan and underscore forms are outside the inputs  *)
(* and outside this definition.  The value is kept in hundredths, so sums  *)
(* are exact where binary floating point would round.                      *)
(***************************************************************************)
FloatBody(s) ==
    LET t == Strip(s)
    IN  IF t /= <<>> /\ Head(t) \in {"-", "+"} THEN Tail(t) ELSE t

FloatNeg(s) == LET t == Strip(s) IN t /= <<>> /\ Head(t) = "-"

\* "ok", or the exception float(v) raises
FloatOutcome(v) ==
    IF ~IsStr(v) THEN "TypeError"
    ELSE LET b == FloatBody(v)
             dots == {i \in 1..Len(b) : b[i] = "."}
         IN  IF /\ \A i \in 1..Len(b) : b[i] \in DigitChars \cup {"."}
                /\ Cardinality(dots) <= 1
                /\ \E i \in 1..Len(b) : b[i] \in DigitChars
             THEN "ok" ELSE "ValueError"

RECURSIVE NatOfDigits(_)
NatOfDigits(s) == IF s = <<>> THEN 0
                  ELSE NatOfDigits(Front(s)) * 10 + DigitVal(Last(s))

\* float(v) in hundredths, for FloatOutcome(v) = "ok"
FloatCents(v) ==
    LET b == FloatBody(v)
        dots == {i \in 1..Len(b) : b[i] = "."}
        dot == IF dots = {} THEN Len(b) + 1 ELSE CHOOSE i \in dots : TRUE
        whole == SubSeq(b, 1, dot - 1)
        frac == SubSeq(SubSeq(b, dot + 1, Len(b)) \o <<"0", "0">>, 1, 2)
        mag == NatOfDigits(whole) * 100 + NatOfDigits(frac)
    IN  IF FloatNeg(v) THEN 0 - mag ELSE mag

(***************************************************************************)
(* core/data_models.py                                                     *)
(***************************************************************************)
Columns == <<"B", "C", "D", "E", "F", "G", "H", "I", "J", "K", "L", "M", "N", "O", "P">>

ColumnSet == {Columns[i] : i \in 1..Len(Columns)}

\* dict.get(key, default)
DictGet(d, key, default) == IF key \in DOMAIN d THEN d[key] ELSE default

from_dict(data) ==
    [ fecha            |-> DictGet(data, "B", <<>>),
      forma_pago       |-> DictGet(data, "C", <<>>),
      subtotal         |-> DictGet(data, "D", <<>>),
      descuento        |-> DictGet(data, "E", <<>>),
      moneda           |-> DictGet(data, "F", <<>>),
      total            |-> DictGet(data, "G", <<>>),
      tipo_comprobante |-> DictGet(data, "H", <<>>),
      metodo_pago      |-> DictGet(data, "I", <<>>),
      emisor_rfc       |-> DictGet(data, "J", <<>>),
      emisor_nombre    |-> DictGet(data, "K", <<>>),
      emisor_regimen   |-> DictGet(data, "L", <<>>),
      receptor_rfc     |-> DictGet(data, "M", <<>>),
      receptor_nombre  |-> DictGet(data, "N", <<>>),
      receptor_regimen |-> DictGet(data, "O", <<>>),
      total_impuestos  |-> DictGet(data, "P", <<>>),
      file_path        |-> DictGet(data, "file_path", <<>>),
      file_name        |-> DictGet(data, "file_name", <<>>) ]

\* a row whose two RFC columns are exchanged
to_excel_row_SwapsRfc(c) ==
    [ B |-> c.fecha,
      C |-> c.forma_pago,
      D |-> c.subtotal,
      E |-> c.descuento,
      F |-> c.moneda,
      G |-> c.total,
      H |-> c.tipo_comprobante,
      I |-> c.metodo_pago,
      J |-> c.receptor_rfc,
      K |-> c.emisor_nombre,
      L |-> c.emisor_regimen,
      M |-> c.emisor_rfc,
      N |-> c.receptor_nombre,
      O |-> c.receptor_regimen,
      P |-> c.total_impuestos ]

to_excel_row(c) ==
    [ B |-> c.fecha,
      C |-> c.forma_pago,
      D |-> c.subtotal,
      E |-> c.descuento,
      F |-> c.moneda,
      G |-> c.total,
      H |-> c.tipo_comprobante,
      I |-> c.metodo_pago,
      J |-> c.emisor_rfc,
      K |-> c.emisor_nombre,
      L |-> c.emisor_regimen,
      M |-> c.receptor_rfc,
      N |-> c.receptor_nombre,
      O |-> c.receptor_regimen,
      P |-> c.total_impuestos ]

\* one "try: if v and float(v) < 0: append(neg)  except ValueError: append(bad)"
\* block of validate: the messages it appends, or the exception it lets through
NumericRule(v, neg, bad) ==
    IF ~Truthy(v) THEN [raised |-> FALSE, errors |-> <<>>]
    ELSE IF FloatOutcome(v) = "TypeError" THEN [raised |-> TRUE, errors |-> <<>>]
    ELSE IF FloatOutcome(v) = "ValueError" THEN [raised |-> FALSE, errors |-> <<bad>>]
    ELSE IF FloatCents(v) < 0 THEN [raised |-> FALSE, errors |-> <<neg>>]
    ELSE [raised |-> FALSE, errors |-> <<>>]

\* validate returning at its first failing rule
validate_ShortCircuit(c) ==
    LET tot == NumericRule(c.total, "Total no puede ser negativo",
                           "Total debe ser un número válido")
        sub == NumericRule(c.subtotal, "Subtotal no puede ser negativo",
                           "Subtotal debe ser un número válido")
        first ==
            IF ~Truthy(c.fecha) THEN <<"Fecha es requerida">>
            ELSE IF ~Truthy(c.total) THEN <<"Total es requerido">>
            ELSE IF ~Truthy(c.emisor_rfc) THEN <<"RFC del emisor es requerido">>
            ELSE IF ~Truthy(c.receptor_rfc) THEN <<"RFC del receptor es requerido">>
            ELSE IF tot.errors /= <<>> THEN tot.errors
            ELSE sub.errors
    IN  IF tot.raised \/ sub.raised
        THEN [raised |-> TRUE, errors |-> <<>>]
        ELSE [raised |-> FALSE, errors |-> first]

\* validate looking at the amounts only when no required field is missing
validate_RequiredElseAmounts(c) ==
    LET required ==
            (IF ~Truthy(c.fecha) THEN <<"Fecha es requerida">> ELSE <<>>)
         \o (IF ~Truthy(c.total) THEN <<"Total es requerido">> ELSE <<>>)
         \o (IF ~Truthy(c.emisor_rfc) THEN <<"RFC del emisor es requerido">> ELSE <<>>)
         \o (IF ~Truthy(c.receptor_rfc) THEN <<"RFC del receptor es requerido">> ELSE <<>>)
        tot == NumericRule(c.total, "Total no puede ser negativo",
                           "Total debe ser un número válido")
        sub == NumericRule(c.subtotal, "Subtotal no puede ser negativo",
                           "Subtotal debe ser un número válido")
    IN  IF required /= <<>> THEN [raised |-> FALSE, errors |-> required]
        ELSE IF tot.raised \/ sub.raised
        THEN [raised |-> TRUE, errors |-> <<>>]
        ELSE [raised |-> FALSE, errors |-> tot.errors \o sub.errors]

\* CFDIData.validate: the list of messages, or raised when float() raises
\* something other than ValueError
validate(c) ==
    LET required ==
            (IF ~Truthy(c.fecha) THEN <<"Fecha es requerida">> ELSE <<>>)
         \o (IF ~Truthy(c.total) THEN <<"Total es requerido">> ELSE <<>>)
         \o (IF ~Truthy(c.emisor_rfc) THEN <<"RFC del emisor es requerido">> ELSE <<>>)
         \o (IF ~Truthy(c.receptor_rfc) THEN <<"RFC del receptor es requerido">> ELSE <<>>)
        tot == NumericRule(c.total, "Total no puede ser negativo",
                           "Total debe ser un número válido")
        sub == NumericRule(c.subtotal, "Subtotal no puede ser negativo",
                           "Subtotal debe ser un número válido")
    IN  IF tot.raised \/ sub.raised
        THEN [raised |-> TRUE, errors |-> <<>>]
        ELSE [raised |-> FALSE, errors |-> required \o tot.errors \o sub.errors]

\* ProcessingResult() after __post_init__
NewProcessingResult ==
    [ successful_files |-> 0,
      failed_files     |-> 0,
      total_amount     |-> 0,
      currency         |-> <<>>,
      date_range       |-> [start |-> <<>>, end |-> <<>>],
      errors           |-> <<>>,
      processed_data   |-> <<>> ]

\* f"{cfdi_data.file_name}: {error}" for each validation error
ValidationEntries(file_name, errs) ==
    [i \in 1..Len(errs) |-> file_name \o <<": ">> \o <<errs[i]>>]

\* the entry of an internal error written like a validation entry
ExceptionEntry_NameFirst(d, what) ==
    DictGet(d, "file_name", <<>>) \o <<": ">> \o <<what>>

\* f"Error procesando {raw_data.get('file_name', 'archivo')}: {str(e)}"
ExceptionEntry(d, what) ==
    <<"Error procesando ">> \o DictGet(d, "file_name", <<"archivo">>)
        \o <<": ">> \o <<what>>

\* The state of the loop of process_raw_data: the result under construction,
\* the local list processed_data, and whether an exception left the function.
NewLoopState == [result |-> NewProcessingResult, processed |-> <<>>, raised |-> FALSE]

\* One iteration of the loop, try and except included.  A raw record is
\* [isdict, d]: a dict d, or an object without .get (isdict = FALSE).
ProcessOne_DropInvalid(st, raw) ==
    IF ~raw.isdict
    THEN [st EXCEPT !.result.failed_files = @ + 1, !.raised = TRUE]
    ELSE
    LET cfdi_data == from_dict(raw.d)
        v == validate(cfdi_data)
    IN  IF v.raised
        THEN [st EXCEPT !.result.failed_files = @ + 1,
                        !.result.errors = Append(@, ExceptionEntry(raw.d, "float() argument"))]
        ELSE IF v.errors /= <<>>
        THEN st
        ELSE [st EXCEPT
                !.processed = Append(@, cfdi_data),
                !.result.successful_files = @ + 1,
                !.result.total_amount =
                    IF Truthy(cfdi_data.total) THEN @ + FloatCents(cfdi_data.total) ELSE @,
                !.result.currency =
                    IF Truthy(cfdi_data.moneda) THEN cfdi_data.moneda ELSE @]

\* the loop body keeping the first currency code it meets
ProcessOne_FirstCurrency(st, raw) ==
    IF ~raw.isdict
    THEN [st EXCEPT !.result.failed_files = @ + 1, !.raised = TRUE]
    ELSE
    LET cfdi_data == from_dict(raw.d)
        v == validate(cfdi_data)
    IN  IF v.raised
        THEN [st EXCEPT !.result.failed_files = @ + 1,
                        !.result.errors = Append(@, ExceptionEntry(raw.d, "float() argument"))]
        ELSE IF v.errors /= <<>>
        THEN [st EXCEPT !.result.failed_files = @ + 1,
                        !.result.errors = @ \o ValidationEntries(cfdi_data.file_name, v.errors)]
        ELSE [st EXCEPT
                !.processed = Append(@, cfdi_data),
                !.result.successful_files = @ + 1,
                !.result.total_amount =
                    IF Truthy(cfdi_data.total) THEN @ + FloatCents(cfdi_data.total) ELSE @,
                !.result.currency =
                    IF Truthy(cfdi_data.moneda) /\ @ = <<>> THEN cfdi_data.moneda ELSE @]

\* the loop body adding a record's total before it looks at the validation
ProcessOne_SumsRejected(st, raw) ==
    IF ~raw.isdict
    THEN [st EXCEPT !.result.failed_files = @ + 1, !.raised = TRUE]
    ELSE
    LET cfdi_data == from_dict(raw.d)
        v == validate(cfdi_data)
        amount == IF Truthy(cfdi_data.total) /\ FloatOutcome(cfdi_data.total) = "ok"
                  THEN FloatCents(cfdi_data.total) ELSE 0
    IN  IF v.raised
        THEN [st EXCEPT !.result.failed_files = @ + 1,
                        !.result.errors = Append(@, ExceptionEntry(raw.d, "float() argument"))]
        ELSE IF v.errors /= <<>>
        THEN [st EXCEPT !.result.failed_files = @ + 1,
                        !.result.total_amount = @ + amount,
                        !.result.errors = @ \o ValidationEntries(cfdi_data.file_name, v.errors)]
        ELSE [st EXCEPT
                !.processed = Append(@, cfdi_data),
                !.result.successful_files = @ + 1,
                !.result.total_amount = @ + amount,
                !.result.currency =
                    IF Truthy(cfdi_data.moneda) THEN cfdi_data.moneda ELSE @]

\* the loop body without its "continue": a record with validation errors is
\* counted and reported, and then handled like an accepted one as well
ProcessOne_NoContinue(st, raw) ==
    IF ~raw.isdict
    THEN [st EXCEPT !.result.failed_files = @ + 1, !.raised = TRUE]
    ELSE
    LET cfdi_data == from_dict(raw.d)
        v == validate(cfdi_data)
        rejected == [st EXCEPT !.result.failed_files = @ + 1,
                               !.result.errors = @ \o ValidationEntries(cfdi_data.file_name, v.errors)]
        reached == IF v.errors /= <<>> THEN rejected ELSE st
    IN  IF v.raised
        THEN [st EXCEPT !.result.failed_files = @ + 1,
                        !.result.errors = Append(@, ExceptionEntry(raw.d, "float() argument"))]
        ELSE [reached EXCEPT
                !.processed = Append(@, cfdi_data),
                !.result.successful_files = @ + 1,
                !.result.total_amount =
                    IF Truthy(cfdi_data.total) /\ FloatOutcome(cfdi_data.total) = "ok"
                    THEN @ + FloatCents(cfdi_data.total) ELSE @,
                !.result.currency =
                    IF Truthy(cfdi_data.moneda) THEN cfdi_data.moneda ELSE @]

ProcessOne(st, raw) ==
    IF ~raw.isdict
    THEN \* from_dict raises AttributeError; the handler counts the failure and
         \* then evaluates raw_data.get(...), which raises again, out of the function
         [st EXCEPT !.result.failed_files = @ + 1, !.raised = TRUE]
    ELSE
    LET cfdi_data == from_dict(raw.d)
        v == validate(cfdi_data)
    IN  IF v.raised
        THEN [st EXCEPT !.result.failed_files = @ + 1,
                        !.result.errors = Append(@, ExceptionEntry(raw.d, "float() argument"))]
        ELSE IF v.errors /= <<>>
        THEN [st EXCEPT !.result.failed_files = @ + 1,
                        !.result.errors = @ \o ValidationEntries(cfdi_data.file_name, v.errors)]
        ELSE [st EXCEPT
                !.processed = Append(@, cfdi_data),
                !.result.successful_files = @ + 1,
                !.result.total_amount =
                    IF Truthy(cfdi_data.total) THEN @ + FloatCents(cfdi_data.total) ELSE @,
                !.result.currency =
                    IF Truthy(cfdi_data.moneda) THEN cfdi_data.moneda ELSE @]

\* the for loop: the records in order, until one lets an exception through
RECURSIVE ProcessLoop(_, _)
ProcessLoop(st, raws) ==
    IF raws = <<>> \/ st.raised THEN st
    ELSE ProcessLoop(ProcessOne(st, Head(raws)), Tail(raws))

\* the range taken from the first and the last accepted record
DateRangeOf_FirstLast(processed) ==
    LET dated == SelectSeq(processed, LAMBDA c : Truthy(c.fecha))
    IN  IF dated = <<>> THEN [start |-> <<>>, end |-> <<>>]
        ELSE [start |-> dated[1].fecha, end |-> dated[Len(dated)].fecha]

\* the statements after the loop
DateRangeOf(processed) ==
    LET dates == {processed[i].fecha : i \in {j \in 1..Len(processed) : Truthy(processed[j].fecha)}}
    IN  IF dates = {} THEN [start |-> <<>>, end |-> <<>>]
        ELSE [start |-> StrMin(dates), end |-> StrMax(dates)]

\* process_raw_data: [raised, result]; with raised no result reaches the caller
process_raw_data(raw_data_list) ==
    LET st == ProcessLoop(NewLoopState, raw_data_list)
    IN  IF st.raised THEN [raised |-> TRUE, result |-> st.result]
        ELSE [raised |-> FALSE,
              result |-> [st.result EXCEPT !.processed_data = st.processed,
                                           !.date_range = DateRangeOf(st.processed)]]

(***************************************************************************)
(* Inputs of the validator                                                 *)
(***************************************************************************)
MaxRecords == 3

EmptyDict == [k \in {} |-> <<>>]

FullDict(fecha, subtotal, moneda, total, emisor, receptor, name) ==
    [ B |-> fecha, C |-> <<"0", "1">>, D |-> subtotal, E |-> <<"0">>, F |-> moneda,
      G |-> total, H |-> <<"I">>, I |-> <<"P", "U", "E">>, J |-> emisor,
      K |-> <<"E", "M", "P">>, L |-> <<"6", "0", "1">>, M |-> receptor, N |-> <<>>,
      O |-> <<"G", "0", "1">>, P |-> <<"1", ".", "6">>,
      file_path |-> <<"t", "_">> \o name, file_name |-> name ]

DictRecord(d) == [isdict |-> TRUE, d |-> d]

NotADict == [isdict |-> FALSE, d |-> EmptyDict]

RawSamples ==
    { DictRecord(FullDict(<<"2", "4", "-", "0", "1">>, <<"1", "0">>, <<"M", "X", "N">>,
                          <<"1", "1", ".", "6", "0">>, <<"A", "A", "A">>, <<"X", "E", "X">>, <<"a">>)),
      DictRecord(FullDict(<<"2", "4", "-", "0", "4">>, <<"1", "1">>, <<"M", "X", "N">>,
                          <<"1", "2", ".", "6", "0">>, <<"A", "A", "A">>, <<"X", "E", "X">>, <<"i">>)),
      DictRecord(FullDict(<<"2", "3", "-", "1", "1">>, <<"1", "2">>, <<"M", "X", "N">>,
                          <<"1", "3", ".", "6", "0">>, <<"A", "A", "A">>, <<"X", "E", "X">>, <<"j">>)),
      DictRecord(FullDict(<<"9">>, <<>>, <<"U", "S", "D">>,
                          <<"5">>, <<"B", "B", "B">>, <<"X", "E", "X">>, <<"b">>)),
      DictRecord(FullDict(<<"2", "4", "-", "0", "2">>, <<"1">>, <<>>,
                          <<"0">>, <<"A", "A", "A">>, <<"X", "E", "X">>, <<"c">>)),
      DictRecord(FullDict(<<"2", "4", "-", "0", "9">>, <<"1">>, <<"E", "U", "R">>,
                          <<"2">>, <<"A", "A", "A">>, <<>>, <<"d">>)),
      DictRecord(FullDict(<<>>, <<"-", "1">>, <<"E", "U", "R">>,
                          <<"-", "5">>, <<>>, <<>>, <<"e">>)),
      DictRecord(FullDict(<<"2", "3", "-", "1", "2">>, <<"x">>, <<"E", "U", "R">>,
                          <<"1", ".", "2", ".", "3">>, <<"A", "A", "A">>, <<"X", "E", "X">>, <<"f">>)),
      DictRecord(FullDict(<<"2", "4", "-", "0", "1">>, <<"1">>, <<"M", "X", "N">>,
                          PyList, <<"A", "A", "A">>, <<"X", "E", "X">>, <<"g">>)),
      DictRecord(FullDict(<<>>, <<"x">>, <<"M", "X", "N">>,
                          <<>>, <<>>, <<>>, <<"h">>)),
      DictRecord([B |-> <<"2", "4", "-", "0", "1">>, G |-> PyList]),
      DictRecord(EmptyDict),
      DictRecord([B |-> <<"2", "4", "-", "0", "1">>]),
      NotADict }

\* raw records carrying all 15 columns: dates, amounts written with leading
\* zeros, trailing zeros and surrounding blanks, codes and names
RowSamples ==
    { FullDict(fecha, subtotal, moneda, total, <<"A", "A", "A">>, <<"X", "E", "X">>, name) :
        fecha \in {<<"2", "4", "-", "0", "1">>, <<" ", "9">>},
        subtotal \in {<<"1", "0">>, <<"0", "1", "0", ".", "5", "0">>, <<>>},
        moneda \in {<<"M", "X", "N">>, <<"m", "x", "n", " ">>},
        total \in {<<"1", "1", ".", "6", "0">>, <<" ", "1", ".", "0", "0", "0">>, <<"x">>},
        name \in {<<"a", ".xml">>, <<"A", " ", ".XML">>} }

RECURSIVE SeqsUpTo(_, _)
SeqsUpTo(S, n) ==
    IF n = 0 THEN {<<>>}
    ELSE LET shorter == SeqsUpTo(S, n - 1)
         IN  shorter \cup {Append(s, x) : s \in {t \in shorter : Len(t) = n - 1}, x \in S}

RawLists == SeqsUpTo(RawSamples, MaxRecords)

\* pairwise distinct elements: a workbook's sheet titles, a selection of files
Distinct(s) == \A i, j \in 1..Len(s) : i /= j => s[i] /= s[j]

(***************************************************************************)
(* core/xml_parser.py                                                      *)
(*                                                                         *)
(* A path is a str whose directory separator is the element "/" and whose  *)
(* extension is one element.  A file is [kind |-> "xml", root |-> element] *)
(* or [kind |-> "malformed"]; an element is [ns, tag, attrs, children],    *)
(* ns the namespace URI its prefix is bound to.                            *)
(***************************************************************************)
NsCfd3 == "http://www.sat.gob.mx/cfd/3"

NsCfd4 == "http://www.sat.gob.mx/cfd/4"

\* CFDI_MAPPING in the order of the dict; each key "elem/@attr" is split at "/@"
CFDI_MAPPING ==
    << [elem |-> "cfdi:Comprobante", attr |-> "Fecha", col |-> "B"],
       [elem |-> "cfdi:Comprobante", attr |-> "FormaPago", col |-> "C"],
       [elem |-> "cfdi:Comprobante", attr |-> "SubTotal", col |-> "D"],
       [elem |-> "cfdi:Comprobante", attr |-> "Descuento", col |-> "E"],
       [elem |-> "cfdi:Comprobante", attr |-> "Moneda", col |-> "F"],
       [elem |-> "cfdi:Comprobante", attr |-> "Total", col |-> "G"],
       [elem |-> "cfdi:Comprobante", attr |-> "TipoDeComprobante", col |-> "H"],
       [elem |-> "cfdi:Comprobante", attr |-> "MetodoPago", col |-> "I"],
       [elem |-> "cfdi:Emisor", attr |-> "Rfc", col |-> "J"],
       [elem |-> "cfdi:Emisor", attr |-> "Nombre", col |-> "K"],
       [elem |-> "cfdi:Emisor", attr |-> "RegimenFiscal", col |-> "L"],
       [elem |-> "cfdi:Receptor", attr |-> "Rfc", col |-> "M"],
       [elem |-> "cfdi:Receptor", attr |-> "RegimenFiscalReceptor", col |-> "N"],
       [elem |-> "cfdi:Receptor", attr |-> "UsoCFDI", col |-> "O"],
       [elem |-> "cfdi:Impuestos", attr |-> "TotalImpuestosTrasladados", col |-> "P"] >>

\* the local name of a "cfdi:<local>" path
LocalName(elem) ==
    CASE elem = "cfdi:Comprobante" -> "Comprobante"
      [] elem = "cfdi:Emisor" -> "Emisor"
      [] elem = "cfdi:Receptor" -> "Receptor"
      [] elem = "cfdi:Impuestos" -> "Impuestos"

\* root.find(element_path, namespaces) with namespaces = {'cfdi': NsCfd4}:
\* the indices of the children it matches (the first is returned)
FindChildren(root, elem) ==
    {i \in 1..Len(root.children) :
        /\ root.children[i].ns = NsCfd4
        /\ root.children[i].tag = LocalName(elem)}

FindChildren_AnyNamespace(root, elem) ==
    {i \in 1..Len(root.children) : root.children[i].tag = LocalName(elem)}

\* _extract_xml_value(root, xml_path) for a path with an attribute
extract_xml_value(root, m) ==
    IF m.elem = "cfdi:Comprobante" THEN DictGet(root.attrs, m.attr, <<>>)
    ELSE LET hits == FindChildren(root, m.elem)
         IN  IF hits /= {}
             THEN DictGet(root.children[CHOOSE i \in hits : \A j \in hits : i <= j].attrs,
                          m.attr, <<>>)
             ELSE <<>>

\* Path(p).name
RECURSIVE PathName(_)
PathName(p) ==
    IF p = <<>> THEN <<>>
    ELSE IF Last(p) = "/" THEN <<>>
    ELSE PathName(Front(p)) \o <<Last(p)>>

\* open + ET.parse: what the file system holds at a path
ReadXml(fs, path) == IF path \in DOMAIN fs THEN fs[path] ELSE [kind |-> "missing"]

\* a parser that gives a document up when one of its fields is absent
parse_cfdi_file_FailsOnMissing(fs, path) ==
    LET f == ReadXml(fs, path)
        value(k) == extract_xml_value(f.root,
                        CFDI_MAPPING[CHOOSE i \in 1..Len(CFDI_MAPPING) : CFDI_MAPPING[i].col = k])
    IN  IF f.kind /= "xml" THEN [ok |-> FALSE, data |-> EmptyDict]
        ELSE IF \E k \in ColumnSet : value(k) = <<>> THEN [ok |-> FALSE, data |-> EmptyDict]
        ELSE [ok |-> TRUE,
              data |-> [k \in ColumnSet \cup {"file_path", "file_name"} |->
                          IF k = "file_path" THEN path
                          ELSE IF k = "file_name" THEN PathName(path)
                          ELSE value(k)]]

\* parse_cfdi_file(path): [ok, data]; ok = FALSE stands for None
parse_cfdi_file(fs, path) ==
    LET f == ReadXml(fs, path)
    IN  IF f.kind /= "xml" THEN [ok |-> FALSE, data |-> EmptyDict]
        ELSE [ok |-> TRUE,
              data |-> [k \in ColumnSet \cup {"file_path", "file_name"} |->
                          IF k = "file_path" THEN path
                          ELSE IF k = "file_name" THEN PathName(path)
                          ELSE extract_xml_value(f.root,
                                   CFDI_MAPPING[CHOOSE i \in 1..Len(CFDI_MAPPING) :
                                                    CFDI_MAPPING[i].col = k])]]

\* a loop that ends at the first document that fails to parse
RECURSIVE parse_multiple_files_StopsAtFailure(_, _)
parse_multiple_files_StopsAtFailure(fs, paths) ==
    IF paths = <<>> THEN <<>>
    ELSE LET data == parse_cfdi_file(fs, Head(paths))
         IN  IF data.ok
             THEN <<data.data>> \o parse_multiple_files_StopsAtFailure(fs, Tail(paths))
             ELSE <<>>

\* parse_multiple_files(paths): the dicts of the files that parse, in order
RECURSIVE parse_multiple_files(_, _)
parse_multiple_files(fs, paths) ==
    IF paths = <<>> THEN <<>>
    ELSE LET data == parse_cfdi_file(fs, Head(paths))
         IN  (IF data.ok THEN <<data.data>> ELSE <<>>)
                 \o parse_multiple_files(fs, Tail(paths))

\* parse_multiple_files followed by process_raw_data, as _process_files_worker
\* and the integration tests chain them
ParseThenProcess(fs, paths) ==
    LET raw == parse_multiple_files(fs, paths)
    IN  [raw |-> raw,
         outcome |-> process_raw_data([i \in 1..Len(raw) |-> DictRecord(raw[i])])]

(***************************************************************************)
(* Inputs of the parser: a file system of sample documents                 *)
(***************************************************************************)
MaxDocs == 3

XmlPath(stem) == <<"d", "/", stem, ".xml">>

Element(ns, tag, attrs) == [ns |-> ns, tag |-> tag, attrs |-> attrs]

RootAttrs(fecha, total) ==
    [ Fecha |-> fecha, FormaPago |-> <<"0", "1">>, SubTotal |-> <<"1", "0">>,
      Descuento |-> <<"0">>, Moneda |-> <<"M", "X", "N">>, Total |-> total,
      TipoDeComprobante |-> <<"I">>, MetodoPago |-> <<"P", "U", "E">> ]

\* the structure of the test fixtures' sample_xml, in namespace ns
Invoice(ns, attrs) ==
    [ kind |-> "xml",
      root |->
        [ ns |-> ns, tag |-> "Comprobante", attrs |-> attrs,
          children |->
            << Element(ns, "Emisor",
                       [Rfc |-> <<"A", "A", "A">>, Nombre |-> <<"E", "M", "P">>,
                        RegimenFiscal |-> <<"6", "0", "1">>]),
               Element(ns, "Receptor",
                       [Rfc |-> <<"X", "E", "X">>,
                        RegimenFiscalReceptor |-> <<"6", "0", "1">>,
                        UsoCFDI |-> <<"G", "0", "1">>]),
               Element(ns, "Impuestos",
                       [TotalImpuestosTrasladados |-> <<"1", ".", "6">>]) >> ] ]

\* d/a.xml and d/f.xml: complete CFDI 4.0 invoices; d/b.xml: the fixture's
\* CFDI 3.3 namespace; d/c.xml: a root with a date only; d/m.xml: not XML;
\* d/n.xml does not exist
XmlFiles ==
    (XmlPath("a") :> Invoice(NsCfd4, RootAttrs(<<"2", "4", "-", "0", "1">>, <<"1", "1", ".", "6">>)))
 @@ (XmlPath("f") :> Invoice(NsCfd4, RootAttrs(<<"2", "4", "-", "0", "2">>, <<"5">>)))
 @@ (XmlPath("b") :> Invoice(NsCfd3, RootAttrs(<<"2", "4", "-", "0", "1">>, <<"1", "1", ".", "6">>)))
 @@ (XmlPath("c") :> [kind |-> "xml",
                      root |-> [ns |-> NsCfd4, tag |-> "Comprobante",
                                attrs |-> [Fecha |-> <<"2", "4", "-", "0", "1">>],
                                children |-> <<>>]])
 @@ (XmlPath("m") :> [kind |-> "malformed"])

XmlPathSamples == DOMAIN XmlFiles \cup {XmlPath("n")}

XmlPathLists == {s \in SeqsUpTo(XmlPathSamples, MaxDocs) : Distinct(s)}

(***************************************************************************)
(* core/excel_processor.py: the sheet resolver                             *)
(***************************************************************************)
month_abbreviations ==
    << <<"E", "n", "e">>,
       <<"F", "e", "b">>,
       <<"M", "a", "r">>,
       <<"A", "b", "r">>,
       <<"M", "a", "y">>,
       <<"J", "u", "n">>,
       <<"J", "u", "l">>,
       <<"A", "g", "o">>,
       <<"S", "e", "p">>,
       <<"O", "c", "t">>,
       <<"N", "o", "v">>,
       <<"D", "i", "c">> >>

month_names ==
    << <<"E", "n", "e", "r", "o">>,
       <<"F", "e", "b", "r", "e", "r", "o">>,
       <<"M", "a", "r", "z", "o">>,
       <<"A", "b", "r", "i", "l">>,
       <<"M", "a", "y", "o">>,
       <<"J", "u", "n", "i", "o">>,
       <<"J", "u", "l", "i", "o">>,
       <<"A", "g", "o", "s", "t", "o">>,
       <<"S", "e", "p", "t", "i", "e", "m", "b", "r", "e">>,
       <<"O", "c", "t", "u", "b", "r", "e">>,
       <<"N", "o", "v", "i", "e", "m", "b", "r", "e">>,
       <<"D", "i", "c", "i", "e", "m", "b", "r", "e">> >>

\* list[i] of Python: a negative index counts from the end, an index outside
\* -len .. len-1 raises IndexError
PyIndexOk(list, i) == 0 - Len(list) <= i /\ i <= Len(list) - 1

PyIndex(list, i) == IF i >= 0 THEN list[i + 1] ELSE list[Len(list) + i + 1]

\* str.lower() of one character
LowerChar(c) ==
    IF Ord(c) >= Ord("A") /\ Ord(c) <= Ord("Z")
    THEN AsciiOrder[Ord(c) - Ord("A") + Ord("a")] ELSE c

Lower(s) == [i \in 1..Len(s) |-> LowerChar(s[i])]

\* needle in hay, for strings
Contains(hay, needle) ==
    \E i \in 1..(Len(hay) - Len(needle) + 1) :
        SubSeq(hay, i, i + Len(needle) - 1) = needle

\* x in list
InList(x, list) == \E i \in 1..Len(list) : list[i] = x

\* f"{month:02d}"
FormatMonth(month) ==
    IF month >= 0 THEN Pad2(month) ELSE <<"-">> \o StrOfNat(0 - month)

\* get_month_tab_name(month, year), for an index the table has
get_month_tab_name(month, year) ==
    PyIndex(month_abbreviations, month - 1) \o StrOfNat(year)

NotFound == [raised |-> FALSE, found |-> FALSE, title |-> <<>>]

FoundSheet(title) == [raised |-> FALSE, found |-> TRUE, title |-> title]

IndexError == [raised |-> TRUE, found |-> FALSE, title |-> <<>>]

\* find_month_tab(workbook, month, year): the title of the sheet it returns,
\* not found for None, raised when a table lookup raises IndexError
find_month_tab_NumberFirst(sheetnames, month, year) ==
    IF ~PyIndexOk(month_abbreviations, month - 1) THEN IndexError
    ELSE
    LET month_tab_name == get_month_tab_name(month, year)
        month_number_tab == FormatMonth(month)
        full_month_name == PyIndex(month_names, month - 1)
        hits == {i \in 1..Len(sheetnames) :
                    Contains(Lower(sheetnames[i]), Lower(month_tab_name))}
    IN  IF InList(month_number_tab, sheetnames) THEN FoundSheet(month_number_tab)
        ELSE IF InList(month_tab_name, sheetnames) THEN FoundSheet(month_tab_name)
        ELSE IF InList(full_month_name, sheetnames) THEN FoundSheet(full_month_name)
        ELSE IF hits /= {}
             THEN FoundSheet(sheetnames[CHOOSE i \in hits : \A j \in hits : i <= j])
        ELSE NotFound

find_month_tab(sheetnames, month, year) ==
    IF ~PyIndexOk(month_abbreviations, month - 1) THEN IndexError
    ELSE
    LET month_tab_name == get_month_tab_name(month, year)
        month_number_tab == FormatMonth(month)
        full_month_name == PyIndex(month_names, month - 1)
        hits == {i \in 1..Len(sheetnames) :
                    Contains(Lower(sheetnames[i]), Lower(month_tab_name))}
    IN  IF InList(month_tab_name, sheetnames) THEN FoundSheet(month_tab_name)
        ELSE IF InList(month_number_tab, sheetnames) THEN FoundSheet(month_number_tab)
        ELSE IF InList(full_month_name, sheetnames) THEN FoundSheet(full_month_name)
        ELSE IF hits /= {}
             THEN FoundSheet(sheetnames[CHOOSE i \in hits : \A j \in hits : i <= j])
        ELSE NotFound

(***************************************************************************)
(* Inputs of the sheet resolver                                            *)
(***************************************************************************)
MaxSheets == 3

Ene2024 == <<"E", "n", "e", "2", "0", "2", "4">>

SheetNameSamples ==
    { Ene2024,
      <<"0", "1">>,
      <<"E", "n", "e", "r", "o">>,
      <<"x", "E", "N", "E", "2", "0", "2", "4">>,
      <<"F", "e", "b", "2", "0", "2", "4">>,
      <<"D", "i", "c", "2", "0", "2", "4">>,
      <<"H", "o", "j", "a", "1">> }

SheetLists == {s \in SeqsUpTo(SheetNameSamples, MaxSheets) : Distinct(s)}

\* months: 1..12, and the neighbours 0 and 13 outside the documented range
MonthArgs == 0..13

YearArgs == {2024, 2025}

(***************************************************************************)
(* core/excel_processor.py: the template writer                            *)
(*                                                                         *)
(* A workbook file is [kind |-> "xlsx", sheetnames, sheets]: the titles in *)
(* order and, per title, the cells that exist, a function from             *)
(* <<row, column>> to [value, number_format].  Any other file is           *)
(* [kind |-> "other"].                                                     *)
(***************************************************************************)
data_start_row == 4

General == "General"

NumberFormat == "#,##0.00"

Max(S) == CHOOSE x \in S : \A y \in S : y <= x

\* worksheet.max_row / worksheet.max_column: 1 for a sheet without cells
max_row(ws) == IF DOMAIN ws = {} THEN 1 ELSE Max({rc[1] : rc \in DOMAIN ws})

max_column(ws) == IF DOMAIN ws = {} THEN 1 ELSE Max({rc[2] : rc \in DOMAIN ws})

\* worksheet.cell(row, column): the cell, created empty when it does not exist
Cell(ws, rc) ==
    IF rc \in DOMAIN ws THEN ws[rc] ELSE [value |-> PyNone, number_format |-> General]

\* load_template: openpyxl.load_workbook succeeds on a workbook file only
load_template(fs, template_path) ==
    IF template_path \in DOMAIN fs /\ fs[template_path].kind = "xlsx"
    THEN [ok |-> TRUE, workbook |-> fs[template_path]]
    ELSE [ok |-> FALSE, workbook |-> [kind |-> "none"]]

\* clear_month_data(worksheet): the value of every cell of rows start_row ..
\* max_row and columns 1 .. max_column becomes None; nothing else of a cell
\* changes
clear_month_data_KeepsRows(ws) == ws

\* clearing that begins at the first row of the sheet
clear_month_data_FromFirstRow(ws) ==
    LET region == (1 .. max_row(ws)) \X (1 .. max_column(ws))
    IN  [rc \in DOMAIN ws \cup region |->
            IF rc \in region THEN [Cell(ws, rc) EXCEPT !.value = PyNone] ELSE ws[rc]]

clear_month_data(ws) ==
    LET region == (data_start_row .. max_row(ws)) \X (1 .. max_column(ws))
    IN  [rc \in DOMAIN ws \cup region |->
            IF rc \in region THEN [Cell(ws, rc) EXCEPT !.value = PyNone] ELSE ws[rc]]

\* openpyxl.utils.column_index_from_string, for the one-letter columns B .. P
column_index_from_string(column_letter) == Ord(column_letter) - Ord("A") + 1

\* cell.value = value raises ValueError for a value that is no str, number,
\* bool, date or None
CellAccepts(value) == value /= PyList

\* float(value) != 0, for FloatOutcome(value) = "ok"
FloatNonZero(value) ==
    LET b == FloatBody(value) IN \E i \in 1..Len(b) : b[i] \in DigitChars \ {"0"}

\* a cell assignment that formats every amount that parses, zero included
FillCell_FormatsZero(ws, row_idx, column_letter, value) ==
    LET rc == <<row_idx, column_index_from_string(column_letter)>>
        cell == Cell(ws, rc)
        formatted ==
            /\ column_letter \in {"D", "E", "G", "P"}
            /\ Truthy(value)
            /\ FloatOutcome(value) = "ok"
        written ==
            IF ~CellAccepts(value) THEN cell
            ELSE [value |-> value,
                  number_format |-> IF formatted THEN NumberFormat ELSE cell.number_format]
    IN  [ok |-> CellAccepts(value),
         ws |-> [x \in DOMAIN ws \cup {rc} |-> IF x = rc THEN written ELSE ws[x]]]

\* the body of the inner loop of fill_month_tab for one column: [ok, ws]; not
\* ok when the assignment raises, after worksheet.cell created the cell
FillCell(ws, row_idx, column_letter, value) ==
    LET rc == <<row_idx, column_index_from_string(column_letter)>>
        cell == Cell(ws, rc)
        formatted ==
            /\ column_letter \in {"D", "E", "G", "P"}
            /\ Truthy(value)
            /\ FloatOutcome(value) = "ok"
            /\ FloatNonZero(value)
        written ==
            IF ~CellAccepts(value) THEN cell
            ELSE [value |-> value,
                  number_format |-> IF formatted THEN NumberFormat ELSE cell.number_format]
    IN  [ok |-> CellAccepts(value),
         ws |-> [x \in DOMAIN ws \cup {rc} |-> IF x = rc THEN written ELSE ws[x]]]

\* for column_letter, value in excel_row.items(), from the k-th column on
RECURSIVE FillRow(_, _, _, _)
FillRow(st, row_idx, excel_row, k) ==
    IF k > Len(Columns) \/ ~st.ok THEN st
    ELSE FillRow(FillCell(st.ws, row_idx, Columns[k], excel_row[Columns[k]]),
                 row_idx, excel_row, k + 1)

\* for row_idx, cfdi_data in enumerate(cfdi_data_list, start=row_idx)
RECURSIVE FillRows(_, _, _)
FillRows(st, cfdi_data_list, row_idx) ==
    IF cfdi_data_list = <<>> \/ ~st.ok THEN st
    ELSE FillRows(FillRow(st, row_idx, to_excel_row(Head(cfdi_data_list)), 1),
                  Tail(cfdi_data_list), row_idx + 1)

\* fill_month_tab(worksheet, cfdi_data_list): [ok, ws], ok the value returned
\* and ws the sheet as the call leaves it
fill_month_tab_IgnoresErrors(ws, cfdi_data_list) ==
    [FillRows([ok |-> TRUE, ws |-> clear_month_data(ws)], cfdi_data_list, data_start_row)
        EXCEPT !.ok = TRUE]

\* filling that begins one row below the first data row
fill_month_tab_OneRowLower(ws, cfdi_data_list) ==
    FillRows([ok |-> TRUE, ws |-> clear_month_data(ws)], cfdi_data_list, data_start_row + 1)

fill_month_tab(ws, cfdi_data_list) ==
    FillRows([ok |-> TRUE, ws |-> clear_month_data(ws)], cfdi_data_list, data_start_row)

\* str(n) and f"{n}" for an int
StrOfInt(n) == IF n < 0 THEN <<"-">> \o StrOfNat(0 - n) ELSE StrOfNat(n)

\* the file extensions the model's paths use, each one element of a path
Suffixes == {".xlsx", ".xml"}

\* Path(p).stem
PathStem(p) ==
    LET name == PathName(p)
    IN  IF name /= <<>> /\ Last(name) \in Suffixes THEN Front(name) ELSE name

\* str(Path(p).parent), for a relative path
PathParent(p) ==
    LET seps == {i \in 1..Len(p) : p[i] = "/"}
    IN  IF seps = {} THEN <<".">> ELSE SubSeq(p, 1, Max(seps) - 1)

\* os.path.join(a, b), for a relative b
PathJoin(a, b) == IF a = <<>> \/ Last(a) = "/" THEN a \o b ELSE a \o <<"/">> \o b

\* the clock ticks TicksPerSecond times a second
TicksPerSecond == 2

\* datetime.now().strftime("%Y%m%d_%H%M%S"): the instant truncated to the
\* second; the clock stays within the day the session began on
strftime(now) ==
    LET second == now \div TicksPerSecond
    IN  <<"20240101", "_">> \o Pad2((second \div 3600) % 24)
            \o Pad2((second \div 60) % 60) \o Pad2(second % 60)

create_output_filename(now, year, month, template_path) ==
    PathStem(template_path) \o <<"_CFDI_">> \o StrOfInt(year) \o <<"_">>
        \o FormatMonth(month) \o <<"_">> \o strftime(now) \o <<".xlsx">>

\* the directories that exist; workbook.save(output_path) raises, before it
\* creates anything, when the directory of output_path does not exist.  An
\* I/O failure in the middle of writing the archive is not modelled.
Directories == {<<"d">>, <<"o">>}

save_workbook(fs, workbook, output_path) ==
    IF PathParent(output_path) \in Directories
    THEN [ok |-> TRUE,
          files |-> [p \in DOMAIN fs \cup {output_path} |->
                        IF p = output_path THEN workbook ELSE fs[p]]]
    ELSE [ok |-> FALSE, files |-> fs]

\* the dict process_cfdi_to_excel starts from
NewReport ==
    [success |-> FALSE, output_path |-> <<>>, error_message |-> <<>>,
     records_processed |-> 0]

FailureReport(error_message) == [NewReport EXCEPT !.error_message = error_message]

\* the "Update result" statements
SuccessReport_NoCount(output_path, cfdi_data_list) ==
    [NewReport EXCEPT !.success = TRUE, !.output_path = output_path]

SuccessReport(output_path, cfdi_data_list) ==
    [NewReport EXCEPT !.success = TRUE, !.output_path = output_path,
                      !.records_processed = Len(cfdi_data_list)]

LoadFailed == <<"No se pudo cargar la plantilla Excel">>

PeriodNotFound_Unnamed(month, year) == <<"No se encontró la pestaña del mes">>

PeriodNotFound(month, year) ==
    <<"No se encontró la pestaña del mes ">> \o StrOfInt(month)
        \o <<" para el año ">> \o StrOfInt(year)

FillFailed == <<"Error al llenar la pestaña del mes">>

SaveFailed == <<"Error al guardar el archivo de salida">>

Unexpected(what) == <<"Error inesperado: ", what>>

\* process_cfdi_to_excel(template_path, cfdi_data_list, year, month, output_dir)
\* at instant now on file system fs: [report, files], the dict returned and the
\* file system the call leaves.  a holds the arguments; output_dir is PyNone
\* for the default.
process_cfdi_to_excel(fs, now, a) ==
    LET loaded == load_template(fs, a.template_path)
        workbook == loaded.workbook
        month_worksheet == find_month_tab(workbook.sheetnames, a.month, a.year)
        filled == fill_month_tab(workbook.sheets[month_worksheet.title], a.cfdi_data_list)
        output_filename == create_output_filename(now, a.year, a.month, a.template_path)
        output_dir == IF a.output_dir = PyNone THEN PathParent(a.template_path)
                      ELSE a.output_dir
        output_path == PathJoin(output_dir, output_filename)
        saved == save_workbook(fs,
                     [workbook EXCEPT !.sheets[month_worksheet.title] = filled.ws],
                     output_path)
    IN  IF ~loaded.ok THEN [report |-> FailureReport(LoadFailed), files |-> fs]
        ELSE IF month_worksheet.raised
        THEN [report |-> FailureReport(Unexpected("list index out of range")), files |-> fs]
        ELSE IF ~month_worksheet.found
        THEN [report |-> FailureReport(PeriodNotFound(a.month, a.year)), files |-> fs]
        ELSE IF ~filled.ok THEN [report |-> FailureReport(FillFailed), files |-> fs]
        ELSE IF ~saved.ok THEN [report |-> FailureReport(SaveFailed), files |-> fs]
        ELSE [report |-> SuccessReport(output_path, a.cfdi_data_list),
              files |-> saved.files]

(***************************************************************************)
(* Inputs of the template writer                                           *)
(***************************************************************************)
MaxBatch == 2

MaxRuns == 2

MaxClock == 3

MaxEvents == 3

TemplatePath(stem) == <<"d", "/", stem, ".xlsx">>

TextCell(text) == [value |-> text, number_format |-> General]

\* row 3, the header row
HeaderCells == (<<3, 2>> :> TextCell(<<"Fecha">>)) @@ (<<3, 7>> :> TextCell(<<"Total">>))

\* a sheet an earlier period's run filled: three data rows, a formatted
\* amount, and a note beyond column P
UsedCells ==
    HeaderCells
 @@ (<<4, 2>> :> TextCell(<<"2", "3", "-", "1", "2">>))
 @@ (<<5, 7>> :> [value |-> <<"9">>, number_format |-> NumberFormat])
 @@ (<<6, 17>> :> TextCell(<<"x">>))

Feb2024 == <<"F", "e", "b", "2", "0", "2", "4">>

Dic2024 == <<"D", "i", "c", "2", "0", "2", "4">>

\* d/t.xlsx: sheets Ene2024 (used), Feb2024 and Dic2024 (headers only);
\* d/h.xlsx: no month sheet; d/x.xlsx: not a workbook; d/n.xlsx does not exist
TemplateFiles ==
    (TemplatePath("t") :>
        [kind |-> "xlsx", sheetnames |-> <<Ene2024, Feb2024, Dic2024>>,
         sheets |-> (Ene2024 :> UsedCells) @@ (Feb2024 :> HeaderCells)
                    @@ (Dic2024 :> HeaderCells)])
 @@ (TemplatePath("h") :>
        [kind |-> "xlsx", sheetnames |-> << <<"H", "o", "j", "a", "1">> >>,
         sheets |-> (<<"H", "o", "j", "a", "1">> :> HeaderCells)])
 @@ (TemplatePath("x") :> [kind |-> "other"])

TemplatePaths == DOMAIN TemplateFiles \cup {TemplatePath("n")}

\* the twelve sheets of the test fixture: Ene2024 ... Dic2024
FixtureSheets == [month \in 1..12 |-> month_abbreviations[month] \o StrOfNat(2024)]

\* a file system whose d/t.xlsx has the given sheets, each with a header row;
\* d/x.xlsx is not a workbook and d/n.xlsx does not exist
StructureFiles(sheetnames) ==
    (TemplatePath("t") :>
        [kind |-> "xlsx", sheetnames |-> sheetnames,
         sheets |-> [title \in {sheetnames[i] : i \in 1..Len(sheetnames)} |-> HeaderCells]])
 @@ (TemplatePath("x") :> [kind |-> "other"])

\* records: a complete one, one whose total and subtotal are zero, one whose
\* amounts are no numbers, and one whose
\* total is a list, which no cell accepts
CfdiSamples ==
    { from_dict(FullDict(<<"2", "4", "-", "0", "1">>, <<"1", "0">>, <<"M", "X", "N">>,
                         <<"1", "1", ".", "6", "0">>, <<"A", "A", "A">>, <<"X", "E", "X">>, <<"a">>)),
      from_dict(FullDict(<<"2", "4", "-", "0", "3">>, <<"0", ".", "0">>, <<"U", "S", "D">>,
                         <<"0">>, <<"B", "B", "B">>, <<"X", "E", "X">>, <<"b">>)),
      from_dict(FullDict(<<"2", "4", "-", "0", "2">>, <<"x">>, <<"E", "U", "R">>,
                         <<"1", ".", "2", ".", "3">>, <<"A", "A", "A">>, <<"X", "E", "X">>, <<"f">>)),
      from_dict(FullDict(<<"2", "4", "-", "0", "1">>, <<"1">>, <<"M", "X", "N">>,
                         PyList, <<"A", "A", "A">>, <<"X", "E", "X">>, <<"g">>)) }

\* months 1 and 2 have a sheet in d/t.xlsx, month 3 has none, months 0 and
\* 13 are outside the documented range; the output directory is the default, one
\* that exists, or one that does not
WriterArgs ==
    [ template_path : TemplatePaths,
      cfdi_data_list : SeqsUpTo(CfdiSamples, MaxBatch),
      year : {2024},
      month : {0, 1, 2, 3, 13},
      output_dir : {PyNone, <<"o">>, <<"z">>} ]

(***************************************************************************)
(* core/excel_processor.py: validate_template_structure                    *)
(***************************************************************************)
\* a check that asks for every one of the twelve months
validate_template_structure_AllMonths(fs, template_path, this_year) ==
    LET loaded == load_template(fs, template_path)
        month_tabs_found ==
            {month \in 1..12 :
                find_month_tab(loaded.workbook.sheetnames, month, this_year).found}
        missing == SelectSeq([month \in 1..12 |-> month],
                             LAMBDA month : month \notin month_tabs_found)
        warnings == [i \in 1..Len(missing) |->
                        <<"Pestaña del mes ">> \o StrOfInt(missing[i]) \o <<" no encontrada">>]
    IN  IF ~loaded.ok
        THEN [valid |-> FALSE, errors |-> << <<"No se pudo cargar la plantilla">> >>,
              warnings |-> <<>>]
        ELSE IF month_tabs_found = 1..12
        THEN [valid |-> TRUE, errors |-> <<>>, warnings |-> warnings,
              month_tabs_found |-> SelectSeq([month \in 1..12 |-> month],
                                             LAMBDA month : month \in month_tabs_found)]
        ELSE [valid |-> FALSE,
              errors |-> << <<"No se encontraron pestañas de meses válidas">> >>,
              warnings |-> warnings]

\* validate_template_structure(template_path), in the year current_year
validate_template_structure(fs, template_path, this_year) ==
    LET loaded == load_template(fs, template_path)
        month_tabs_found ==
            {month \in 1..12 :
                find_month_tab(loaded.workbook.sheetnames, month, this_year).found}
        missing == SelectSeq([month \in 1..12 |-> month],
                             LAMBDA month : month \notin month_tabs_found)
        warnings == [i \in 1..Len(missing) |->
                        <<"Pestaña del mes ">> \o StrOfInt(missing[i]) \o <<" no encontrada">>]
    IN  IF ~loaded.ok
        THEN [valid |-> FALSE, errors |-> << <<"No se pudo cargar la plantilla">> >>,
              warnings |-> <<>>]
        ELSE IF month_tabs_found /= {}
        THEN [valid |-> TRUE, errors |-> <<>>, warnings |-> warnings,
              month_tabs_found |-> SelectSeq([month \in 1..12 |-> month],
                                             LAMBDA month : month \in month_tabs_found)]
        ELSE [valid |-> FALSE,
              errors |-> << <<"No se encontraron pestañas de meses válidas">> >>,
              warnings |-> warnings]

(***************************************************************************)
(* gui/main_window.py: the pipeline worker and the callbacks it posts      *)
(***************************************************************************)
\* "\n".join(lines)
RECURSIVE JoinLines(_)
JoinLines(lines) ==
    IF lines = <<>> THEN <<>>
    ELSE IF Len(lines) = 1 THEN lines[1]
    ELSE lines[1] \o <<"\n">> \o JoinLines(Tail(lines))

\* the callbacks _process_files_worker hands to root.after(0, ...)
SetStatus(text) == [kind |-> "status_var.set", arg |-> text]

SetProgress(value) == [kind |-> "progress_var.set", arg |-> value]

ShowError(message) == [kind |-> "showerror", arg |-> message]

ShowInfo(message) == [kind |-> "showinfo", arg |-> message]

EnableDownload == [kind |-> "_enable_download", arg |-> <<>>]

ResetUi == [kind |-> "_reset_ui", arg |-> <<>>]

\* what the main loop does when it runs callback cb: _reset_ui,
\* _enable_download, a set of a Tk variable, or a message box
RunCallback(g, cb) ==
    CASE cb.kind = "status_var.set" -> [g EXCEPT !.status_var = cb.arg]
      [] cb.kind = "progress_var.set" -> [g EXCEPT !.progress_var = cb.arg]
      [] cb.kind = "_enable_download" -> [g EXCEPT !.download_button = "normal"]
      [] cb.kind = "_reset_ui" ->
            [g EXCEPT !.process_button = "normal",
                      !.status_var = <<"Listo para procesar">>,
                      !.progress_var = 0]
      [] OTHER -> [g EXCEPT !.dialogs = Append(@, cb)]

TemplateError(validation_result) ==
    <<"Error en la plantilla Excel:\n">> \o JoinLines(validation_result.errors)

NoDocuments == <<"No se pudieron procesar los archivos XML.">>

WorkerUnexpected(what) == <<"Error inesperado durante el procesamiento: ", what>>

success_msg(processing_result, excel_result) ==
    <<"Procesamiento completado exitosamente!\n\n", "Archivos procesados: ">>
        \o StrOfInt(processing_result.successful_files)
        \o <<"\n", "Archivos con errores: ">>
        \o StrOfInt(processing_result.failed_files)
        \o <<"\n", "Registros llenados: ">>
        \o StrOfInt(excel_result.records_processed)
        \o <<"\n", "Archivo de salida: ">> \o PathName(excel_result.output_path)
        \o <<"\n\n", "Use el botón 'Abrir Ubicación del Archivo' para encontrar el archivo procesado.">>

\* f"{count} archivo(s) seleccionado(s)"
SelectedLabel(filenames) ==
    StrOfNat(Len(filenames)) \o <<" archivo(s) seleccionado(s)">>

\* CFDIApplication after __init__; no files selected yet
NewGui ==
    [ year_var           |-> <<"2", "0", "2", "5">>,
      month_var          |-> <<>>,
      excel_path_var     |-> <<>>,
      xml_files_var      |-> <<"No se han seleccionado archivos">>,
      selected_xml_files |-> <<>>,
      output_file_path   |-> PyNone,
      process_button     |-> "disabled",
      download_button    |-> "disabled",
      status_var         |-> <<"Listo para procesar">>,
      progress_var       |-> 0,
      dialogs            |-> <<>> ]

\* no worker thread
NoWorker ==
    [ pc |-> "idle", year |-> 2025, month |-> 1, excel_template |-> <<>>,
      xml_files |-> <<>>, raw_data_list |-> <<>>,
      processing_result |-> NewProcessingResult, excel_result |-> NewReport,
      calls |-> <<>> ]

\* where the worker continues after the "if not validation_result['valid']"
\* block, and after the "if not raw_data_list" block
AfterValidation_NoReturn(validation_result) == "parse"

AfterValidation(validation_result) ==
    IF ~validation_result.valid THEN "done" ELSE "parse"

\* a worker that goes on after the "if not raw_data_list" block
AfterParse_NoReturn(raw_data_list) == "process"

AfterParse(raw_data_list) == IF raw_data_list = <<>> THEN "done" ELSE "process"

(***************************************************************************)
(* gui/main_window.py: the input handlers of the window                    *)
(***************************************************************************)
\* the values of the month combobox, and the table process_files looks the
\* month up in: "" followed by the twelve names
GuiMonthNames == << <<>> >> \o month_names

\* list.index(x), zero-based, for x in list
ListIndex(list, x) ==
    (CHOOSE i \in 1..Len(list) : list[i] = x /\ \A j \in 1..(i - 1) : list[j] /= x) - 1

\* ", ".join(names)
RECURSIVE JoinComma(_)
JoinComma(names) ==
    IF names = <<>> THEN <<>>
    ELSE IF Len(names) = 1 THEN names[1]
    ELSE names[1] \o <<", ">> \o JoinComma(Tail(names))

\* _validate_inputs: the process button is enabled exactly when the four
\* inputs are filled.  selected_xml_files does not exist before the first
\* selection; hasattr(...) and len(...) > 0 is then false, as for [].
ValidateInputs(g) ==
    LET year_selected == Strip(g.year_var) /= <<>>
        month_selected == Strip(g.month_var) /= <<>>
        excel_selected == Strip(g.excel_path_var) /= <<>>
        xml_selected == Len(g.selected_xml_files) > 0
    IN  [g EXCEPT !.process_button =
            IF year_selected /\ month_selected /\ excel_selected /\ xml_selected
            THEN "normal" ELSE "disabled"]

\* select_excel_file, for the filename the dialog returned ("" on cancel)
select_excel_file(g, filename) ==
    IF filename /= <<>>
    THEN ValidateInputs(ValidateInputs([g EXCEPT !.excel_path_var = filename]))
    ELSE g

\* select_xml_files, for the filenames the dialog returned (none on cancel)
select_xml_files(g, filenames) ==
    IF filenames /= <<>>
    THEN ValidateInputs([g EXCEPT !.xml_files_var = SelectedLabel(filenames),
                                  !.selected_xml_files = filenames])
    ELSE ValidateInputs([g EXCEPT !.xml_files_var = <<"No se han seleccionado archivos">>,
                                  !.selected_xml_files = <<>>])

MonthTabMissing(month, expected_tab_name, sheetnames) ==
    <<"La pestaña '">> \o GuiMonthNames[month + 1]
        \o <<"' no existe en la plantilla Excel.\n\n", "Se esperaba encontrar: '">>
        \o expected_tab_name \o <<"'\n", "Pestañas disponibles: ">>
        \o JoinComma(sheetnames)
        \o <<"\n\n", "Por favor seleccione un mes que exista en la plantilla.">>

\* _validate_month_tab_exists(year, month) on the template excel_path_var
\* names: whether the tab exists, and the message of the error box if not
validate_month_tab_exists(fs, excel_template, year, month) ==
    LET loaded == load_template(fs, excel_template)
        month_worksheet == find_month_tab(loaded.workbook.sheetnames, month, year)
    IN  IF ~loaded.ok
        THEN [ok |-> FALSE, message |-> <<"No se pudo cargar la plantilla Excel.">>]
        ELSE IF month_worksheet.raised
        THEN [ok |-> FALSE,
              message |-> <<"Error al validar la plantilla Excel: ",
                            "list index out of range">>]
        ELSE IF ~month_worksheet.found
        THEN [ok |-> FALSE,
              message |-> MonthTabMissing(month, get_month_tab_name(month, year),
                                          loaded.workbook.sheetnames)]
        ELSE [ok |-> TRUE, message |-> <<>>]

\* the thread process_files starts: _process_files_worker(year, month)
NewThread(year, month) ==
    [NoWorker EXCEPT !.pc = "validate", !.year = year, !.month = month]

\* process_files on window g and file system fs: the window it leaves and
\* the threads it started (one or none).  Every refusal is an error box.
process_files(g, fs) ==
    LET Refuse(message) ==
            [gui |-> [g EXCEPT !.dialogs = Append(@, ShowError(message))],
             threads |-> <<>>]
        year == NatOfDigits(g.year_var)
        month_name == Strip(g.month_var)
        month == ListIndex(GuiMonthNames, month_name)
    IN  IF g.excel_path_var = <<>>
        THEN Refuse(<<"Por favor seleccione un archivo de plantilla Excel.">>)
        ELSE IF g.selected_xml_files = <<>>
        THEN Refuse(<<"Por favor seleccione archivos XML para procesar.">>)
        ELSE IF Strip(g.year_var) = <<>> \/ Strip(g.month_var) = <<>>
        THEN Refuse(<<"Por favor seleccione un año y mes válidos.">>)
        ELSE IF \E i \in 1..Len(g.year_var) : g.year_var[i] \notin DigitChars
        THEN Refuse(<<"Por favor seleccione un año y mes válidos.">>)
        ELSE IF ~InList(month_name, GuiMonthNames)
        THEN Refuse(<<"Por favor seleccione un mes válido.">>)
        ELSE LET checked == validate_month_tab_exists(fs, g.excel_path_var, year, month)
             IN  IF ~checked.ok THEN Refuse(checked.message)
                 ELSE [gui |-> [g EXCEPT !.process_button = "disabled",
                                         !.download_button = "disabled",
                                         !.status_var = <<"Procesando archivos...">>,
                                         !.progress_var = 0],
                       threads |-> <<NewThread(year, month)>>]

(***************************************************************************)
(* Inputs of the pipeline worker                                           *)
(***************************************************************************)
\* the templates and the documents on one disk
RunFiles == TemplateFiles @@ XmlFiles

\* selections: one complete document; a complete one, one that validation
\* rejects and one that does not parse; two that do not parse
XmlSelections ==
    { <<XmlPath("a")>>,
      <<XmlPath("a"), XmlPath("c"), XmlPath("m")>>,
      <<XmlPath("m"), XmlPath("n")>> }

(***************************************************************************)
(* The state machines.  A behaviour of a component's specification is one  *)
(* call of the component: the initial state holds the arguments, drawn     *)
(* from the samples, and the action applies the code to them.              *)
(***************************************************************************)
NotCalled == [called |-> FALSE, raised |-> FALSE, result |-> NewProcessingResult]

RowNotCalled == [called |-> FALSE, row |-> EmptyDict, file_path |-> <<>>, file_name |-> <<>>]

DataIdle ==
    /\ data_in = <<>>
    /\ data_out = NotCalled
    /\ row_in = EmptyDict
    /\ row_out = RowNotCalled

TplNotCalled ==
    [called |-> FALSE, result |-> [valid |-> FALSE, errors |-> <<>>, warnings |-> <<>>]]

SheetIdle ==
    /\ sheet_in = [sheetnames |-> <<>>, month |-> 1, year |-> 2024]
    /\ sheet_out = [called |-> FALSE, ret |-> NotFound]
    /\ tpl_in = TemplatePath("t")
    /\ tpl_out = TplNotCalled

PipeIdle ==
    /\ xml_in = <<>>
    /\ pipe_out = [called |-> FALSE, raw |-> <<>>, outcome |-> [raised |-> FALSE, result |-> NewProcessingResult]]

ExcelIdle ==
    /\ files = TemplateFiles
    /\ clock = 0
    /\ xl_in = [template_path |-> TemplatePath("t"), cfdi_data_list |-> <<>>,
                year |-> 2024, month |-> 1, output_dir |-> PyNone]
    /\ xl_log = <<>>

RunIdle ==
    /\ gui = NewGui
    /\ worker = NoWorker
    /\ after_queue = <<>>
    /\ current_year = 2025
    /\ threads = <<>>
    /\ events = 0

DataInit ==
    /\ data_in \in RawLists
    /\ data_out = NotCalled
    /\ row_in = EmptyDict
    /\ row_out = RowNotCalled
    /\ SheetIdle
    /\ PipeIdle
    /\ ExcelIdle
    /\ RunIdle

CallProcessRawData ==
    /\ ~data_out.called
    /\ data_out' = [called |-> TRUE] @@ process_raw_data(data_in)
    /\ UNCHANGED <<data_in, row_in, row_out, sheetVars, pipeVars, excelVars, runVars>>

DataNext == CallProcessRawData

SpecData == DataInit /\ [][DataNext]_vars

\* One conversion of a raw record to a CFDIData object and on to its row.
RowInit ==
    /\ row_in \in RowSamples
    /\ row_out = RowNotCalled
    /\ data_in = <<>>
    /\ data_out = NotCalled
    /\ SheetIdle
    /\ PipeIdle
    /\ ExcelIdle
    /\ RunIdle

CallFromDictToExcelRow ==
    /\ ~row_out.called
    /\ \E cfdi_data \in {from_dict(row_in)} :
           row_out' = [called |-> TRUE,
                       row |-> to_excel_row(cfdi_data),
                       file_path |-> cfdi_data.file_path,
                       file_name |-> cfdi_data.file_name]
    /\ UNCHANGED <<row_in, data_in, data_out, sheetVars, pipeVars, excelVars, runVars>>

RowNext == CallFromDictToExcelRow

SpecRow == RowInit /\ [][RowNext]_vars

SheetInit ==
    /\ sheet_in \in [sheetnames : SheetLists, month : MonthArgs, year : YearArgs]
    /\ sheet_out = [called |-> FALSE, ret |-> NotFound]
    /\ tpl_in = TemplatePath("t")
    /\ tpl_out = TplNotCalled
    /\ DataIdle
    /\ PipeIdle
    /\ ExcelIdle
    /\ RunIdle

CallFindMonthTab ==
    /\ ~sheet_out.called
    /\ sheet_out' = [called |-> TRUE,
                     ret |-> find_month_tab(sheet_in.sheetnames, sheet_in.month,
                                            sheet_in.year)]
    /\ UNCHANGED <<sheet_in, tpl_in, tpl_out, dataVars, pipeVars, excelVars, runVars>>

SheetNext == CallFindMonthTab

SpecSheet == SheetInit /\ [][SheetNext]_vars

\* One call of validate_template_structure: the file system holds a template
\* with some list of sheets, and the calendar shows some year.
TemplateInit ==
    /\ files \in {StructureFiles(sheetnames) : sheetnames \in SheetLists \cup {FixtureSheets}}
    /\ tpl_in \in {TemplatePath("t"), TemplatePath("x"), TemplatePath("n")}
    /\ tpl_out = TplNotCalled
    /\ current_year \in YearArgs
    /\ sheet_in = [sheetnames |-> <<>>, month |-> 1, year |-> 2024]
    /\ sheet_out = [called |-> FALSE, ret |-> NotFound]
    /\ clock = 0
    /\ xl_in = [template_path |-> TemplatePath("t"), cfdi_data_list |-> <<>>,
                year |-> 2024, month |-> 1, output_dir |-> PyNone]
    /\ xl_log = <<>>
    /\ gui = NewGui
    /\ worker = NoWorker
    /\ after_queue = <<>>
    /\ threads = <<>>
    /\ events = 0
    /\ DataIdle
    /\ PipeIdle

CallValidateTemplateStructure ==
    /\ ~tpl_out.called
    /\ \E validation_result \in {validate_template_structure(files, tpl_in, current_year)} :
           tpl_out' = [called |-> TRUE, result |-> validation_result]
    /\ UNCHANGED <<tpl_in, sheet_in, sheet_out, dataVars, pipeVars, excelVars, runVars>>

TemplateNext == CallValidateTemplateStructure

SpecTemplate == TemplateInit /\ [][TemplateNext]_vars

PipeInit ==
    /\ xml_in \in XmlPathLists
    /\ pipe_out = [called |-> FALSE, raw |-> <<>>, outcome |-> [raised |-> FALSE, result |-> NewProcessingResult]]
    /\ DataIdle
    /\ SheetIdle
    /\ ExcelIdle
    /\ RunIdle

CallParseThenProcess ==
    /\ ~pipe_out.called
    /\ pipe_out' = [called |-> TRUE] @@ ParseThenProcess(XmlFiles, xml_in)
    /\ UNCHANGED <<xml_in, dataVars, sheetVars, excelVars, runVars>>

PipeNext == CallParseThenProcess

SpecPipe == PipeInit /\ [][PipeNext]_vars

\* A session of the writer: calls of process_cfdi_to_excel with the same
\* arguments, each taking at least one tick, while the clock runs.
ExcelInit ==
    /\ files = TemplateFiles
    /\ clock = 0
    /\ xl_in \in WriterArgs
    /\ xl_log = <<>>
    /\ DataIdle
    /\ SheetIdle
    /\ PipeIdle
    /\ RunIdle

CallProcessCfdiToExcel ==
    /\ Len(xl_log) < MaxRuns
    /\ clock < MaxClock
    /\ LET r == process_cfdi_to_excel(files, clock, xl_in)
       IN  /\ files' = r.files
           /\ xl_log' = Append(xl_log, [now |-> clock, report |-> r.report])
    /\ clock' = clock + 1
    /\ UNCHANGED <<xl_in, dataVars, sheetVars, pipeVars, runVars>>

Tick ==
    /\ clock < MaxClock
    /\ clock' = clock + 1
    /\ UNCHANGED <<files, xl_in, xl_log, dataVars, sheetVars, pipeVars, runVars>>

ExcelNext == CallProcessCfdiToExcel \/ Tick

SpecExcel == ExcelInit /\ [][ExcelNext]_vars

\* One pipeline run: process_files has disabled the buttons and started the
\* worker thread with (year, month); the worker reads the template path and
\* the selection from the fields, whatever they hold by then.
RunInit ==
    /\ \E m \in {1, 3} :
           /\ gui \in {[NewGui EXCEPT !.year_var = StrOfNat(2024),
                                      !.month_var = month_names[m],
                                      !.excel_path_var = t,
                                      !.xml_files_var = SelectedLabel(x),
                                      !.selected_xml_files = x,
                                      !.status_var = <<"Procesando archivos...">>] :
                          t \in DOMAIN TemplateFiles, x \in XmlSelections}
           /\ worker = [NoWorker EXCEPT !.pc = "validate", !.year = 2024, !.month = m]
    /\ after_queue = <<>>
    /\ current_year \in {2024, 2025}
    /\ threads = <<>>
    /\ events = 0
    /\ files = RunFiles
    /\ clock = 0
    /\ xl_in = [template_path |-> TemplatePath("t"), cfdi_data_list |-> <<>>,
                year |-> 2024, month |-> 1, output_dir |-> PyNone]
    /\ xl_log = <<>>
    /\ DataIdle
    /\ SheetIdle
    /\ PipeIdle

WorkerValidateTemplate ==
    /\ worker.pc = "validate"
    /\ \E validation_result \in
              {validate_template_structure(files, gui.excel_path_var, current_year)} :
           /\ worker' = [worker EXCEPT
                            !.pc = AfterValidation(validation_result),
                            !.excel_template = gui.excel_path_var,
                            !.xml_files = gui.selected_xml_files,
                            !.calls = Append(@, "validate_template_structure")]
           /\ after_queue' =
                  after_queue
                      \o <<SetStatus(<<"Validando plantilla Excel...">>), SetProgress(10)>>
                      \o (IF ~validation_result.valid
                          THEN <<ShowError(TemplateError(validation_result)), ResetUi>>
                          ELSE <<>>)
    /\ UNCHANGED <<gui, current_year, threads, events, excelVars, dataVars, sheetVars, pipeVars>>

WorkerParse ==
    /\ worker.pc = "parse"
    /\ \E raw_data_list \in {parse_multiple_files(files, worker.xml_files)} :
           /\ worker' = [worker EXCEPT
                            !.pc = AfterParse(raw_data_list),
                            !.raw_data_list = raw_data_list,
                            !.calls = Append(@, "parse_multiple_files")]
           /\ after_queue' =
                  after_queue
                      \o <<SetStatus(<<"Procesando archivos XML...">>), SetProgress(30)>>
                      \o (IF raw_data_list = <<>>
                          THEN <<ShowError(NoDocuments), ResetUi>>
                          ELSE <<>>)
    /\ UNCHANGED <<gui, current_year, threads, events, excelVars, dataVars, sheetVars, pipeVars>>

WorkerProcess ==
    /\ worker.pc = "process"
    /\ \E outcome \in
              {process_raw_data([i \in 1..Len(worker.raw_data_list) |->
                                    DictRecord(worker.raw_data_list[i])])} :
           /\ worker' = [worker EXCEPT
                            !.pc = IF outcome.raised THEN "done" ELSE "write",
                            !.processing_result = outcome.result,
                            !.calls = Append(@, "process_raw_data")]
           /\ after_queue' =
                  after_queue
                      \o <<SetStatus(<<"Validando datos CFDI...">>), SetProgress(60)>>
                      \o (IF outcome.raised
                          THEN <<ShowError(WorkerUnexpected("AttributeError")), ResetUi>>
                          ELSE <<>>)
    /\ UNCHANGED <<gui, current_year, threads, events, excelVars, dataVars, sheetVars, pipeVars>>

WorkerWrite ==
    /\ worker.pc = "write"
    /\ \E written \in
              {process_cfdi_to_excel(files, clock,
                   [template_path |-> worker.excel_template,
                    cfdi_data_list |-> worker.processing_result.processed_data,
                    year |-> worker.year, month |-> worker.month,
                    output_dir |-> PyNone])} :
       \E excel_result \in {written.report} :
           /\ files' = written.files
           /\ worker' = [worker EXCEPT
                            !.pc = "done",
                            !.excel_result = excel_result,
                            !.calls = Append(@, "process_cfdi_to_excel")]
           /\ after_queue' =
                  after_queue
                      \o <<SetStatus(<<"Llenando plantilla Excel...">>), SetProgress(80)>>
                      \o (IF ~excel_result.success
                          THEN <<ShowError(excel_result.error_message), ResetUi>>
                          ELSE <<SetStatus(<<"Completado">>), SetProgress(100),
                                 ShowInfo(success_msg(worker.processing_result, excel_result)),
                                 EnableDownload, ResetUi>>)
           /\ gui' = IF excel_result.success
                     THEN [gui EXCEPT !.output_file_path = excel_result.output_path]
                     ELSE gui
    /\ clock' = clock + 1
    /\ UNCHANGED <<current_year, threads, events, xl_in, xl_log, dataVars, sheetVars, pipeVars>>

\* the main loop runs the oldest pending callback
DispatchAfter ==
    /\ after_queue /= <<>>
    /\ gui' = RunCallback(gui, Head(after_queue))
    /\ after_queue' = Tail(after_queue)
    /\ UNCHANGED <<worker, current_year, threads, events, excelVars, dataVars, sheetVars, pipeVars>>

RunNext ==
    \/ WorkerValidateTemplate
    \/ WorkerParse
    \/ WorkerProcess
    \/ WorkerWrite
    \/ DispatchAfter

SpecRun == RunInit /\ [][RunNext]_vars

\* a step of the worker thread
WorkerStep == WorkerValidateTemplate \/ WorkerParse \/ WorkerProcess \/ WorkerWrite

\* the thread has not returned from _process_files_worker; a WorkerStep is
\* possible in exactly these states
WorkerRunning == worker.pc \in {"validate", "parse", "process", "write"}

\* weak fairness of the worker's steps, WF_vars(WorkerStep), with
\* ENABLED <<WorkerStep>>_vars written as the state predicate it equals
WorkerFair == []<>(~WorkerRunning) \/ []<><<WorkerStep>>_vars

\* The same run under the scheduling the platform gives: a started thread
\* keeps being scheduled until its function returns, and the main loop keeps
\* running the callbacks root.after queued.
SpecRunFair ==
    /\ SpecRun
    /\ WorkerFair
    /\ WF_vars(DispatchAfter)

\* A session of the window.  It starts after the user has made selections:
\* the year 2024, a month or none, the template d/t.xlsx, documents or none,
\* with the process button as _validate_inputs left it.  The main loop then
\* handles input events and posted callbacks one at a time, while the
\* threads process_files started run beside it.
GuiInit ==
    /\ gui \in {ValidateInputs([NewGui EXCEPT !.year_var = StrOfNat(2024),
                                              !.month_var = m,
                                              !.excel_path_var = TemplatePath("t"),
                                              !.xml_files_var = SelectedLabel(x),
                                              !.selected_xml_files = x]) :
                   m \in {<<>>, month_names[1]},
                   x \in {<<XmlPath("a")>>, <<XmlPath("a"), XmlPath("c"), XmlPath("m")>>}}
    /\ worker = NoWorker
    /\ after_queue = <<>>
    /\ current_year \in {2024, 2025}
    /\ threads = <<>>
    /\ events = 0
    /\ files = RunFiles
    /\ clock = 0
    /\ xl_in = [template_path |-> TemplatePath("t"), cfdi_data_list |-> <<>>,
                year |-> 2024, month |-> 1, output_dir |-> PyNone]
    /\ xl_log = <<>>
    /\ DataIdle
    /\ SheetIdle
    /\ PipeIdle

\* the year combobox: year_var is written, its trace runs _validate_inputs
SelectYear ==
    /\ events < MaxEvents
    /\ \E year \in {2024, 2025} :
           gui' = ValidateInputs([gui EXCEPT !.year_var = StrOfNat(year)])
    /\ events' = events + 1
    /\ UNCHANGED <<worker, after_queue, current_year, threads, excelVars, dataVars,
                   sheetVars, pipeVars>>

\* the month combobox: month_var is written, its trace runs _validate_inputs
SelectMonth ==
    /\ events < MaxEvents
    /\ \E month_name \in {GuiMonthNames[1], GuiMonthNames[2], GuiMonthNames[4]} :
           gui' = ValidateInputs([gui EXCEPT !.month_var = month_name])
    /\ events' = events + 1
    /\ UNCHANGED <<worker, after_queue, current_year, threads, excelVars, dataVars,
                   sheetVars, pipeVars>>

\* the "Examinar" button
SelectExcelFile ==
    /\ events < MaxEvents
    /\ \E filename \in {<<>>, TemplatePath("t"), TemplatePath("h")} :
           gui' = select_excel_file(gui, filename)
    /\ events' = events + 1
    /\ UNCHANGED <<worker, after_queue, current_year, threads, excelVars, dataVars,
                   sheetVars, pipeVars>>

\* the "Seleccionar Archivos" button
SelectXmlFiles ==
    /\ events < MaxEvents
    /\ \E filenames \in {<<>>, <<XmlPath("a")>>, <<XmlPath("m"), XmlPath("n")>>} :
           gui' = select_xml_files(gui, filenames)
    /\ events' = events + 1
    /\ UNCHANGED <<worker, after_queue, current_year, threads, excelVars, dataVars,
                   sheetVars, pipeVars>>

\* the "Procesar Archivos CFDI" button; a disabled button runs no command
ProcessFiles ==
    /\ events < MaxEvents
    /\ gui.process_button = "normal"
    /\ \E started \in {process_files(gui, files)} :
           /\ gui' = started.gui
           /\ threads' = threads \o started.threads
    /\ events' = events + 1
    /\ UNCHANGED <<worker, after_queue, current_year, excelVars, dataVars,
                   sheetVars, pipeVars>>

\* _process_files_worker in thread i, up to the template validation
ThreadValidateTemplate(i) ==
    /\ threads[i].pc = "validate"
    /\ \E validation_result \in
              {validate_template_structure(files, gui.excel_path_var, current_year)} :
           /\ threads' = [threads EXCEPT
                            ![i].pc = AfterValidation(validation_result),
                            ![i].excel_template = gui.excel_path_var,
                            ![i].xml_files = gui.selected_xml_files,
                            ![i].calls = Append(@, "validate_template_structure")]
           /\ after_queue' =
                  after_queue
                      \o <<SetStatus(<<"Validando plantilla Excel...">>), SetProgress(10)>>
                      \o (IF ~validation_result.valid
                          THEN <<ShowError(TemplateError(validation_result)), ResetUi>>
                          ELSE <<>>)
    /\ UNCHANGED <<gui, worker, current_year, events, excelVars, dataVars, sheetVars,
                   pipeVars>>

ThreadParse(i) ==
    /\ threads[i].pc = "parse"
    /\ \E raw_data_list \in {parse_multiple_files(files, threads[i].xml_files)} :
           /\ threads' = [threads EXCEPT
                            ![i].pc = AfterParse(raw_data_list),
                            ![i].raw_data_list = raw_data_list,
                            ![i].calls = Append(@, "parse_multiple_files")]
           /\ after_queue' =
                  after_queue
                      \o <<SetStatus(<<"Procesando archivos XML...">>), SetProgress(30)>>
                      \o (IF raw_data_list = <<>>
                          THEN <<ShowError(NoDocuments), ResetUi>>
                          ELSE <<>>)
    /\ UNCHANGED <<gui, worker, current_year, events, excelVars, dataVars, sheetVars,
                   pipeVars>>

ThreadProcess(i) ==
    /\ threads[i].pc = "process"
    /\ \E outcome \in
              {process_raw_data([k \in 1..Len(threads[i].raw_data_list) |->
                                    DictRecord(threads[i].raw_data_list[k])])} :
           /\ threads' = [threads EXCEPT
                            ![i].pc = IF outcome.raised THEN "done" ELSE "write",
                            ![i].processing_result = outcome.result,
                            ![i].calls = Append(@, "process_raw_data")]
           /\ after_queue' =
                  after_queue
                      \o <<SetStatus(<<"Validando datos CFDI...">>), SetProgress(60)>>
                      \o (IF outcome.raised
                          THEN <<ShowError(WorkerUnexpected("AttributeError")), ResetUi>>
                          ELSE <<>>)
    /\ UNCHANGED <<gui, worker, current_year, events, excelVars, dataVars, sheetVars,
                   pipeVars>>

ThreadWrite(i) ==
    /\ threads[i].pc = "write"
    /\ \E written \in
              {process_cfdi_to_excel(files, clock,
                   [template_path |-> threads[i].excel_template,
                    cfdi_data_list |-> threads[i].processing_result.processed_data,
                    year |-> threads[i].year, month |-> threads[i].month,
                    output_dir |-> PyNone])} :
       \E excel_result \in {written.report} :
           /\ files' = written.files
           /\ threads' = [threads EXCEPT
                            ![i].pc = "done",
                            ![i].excel_result = excel_result,
                            ![i].calls = Append(@, "process_cfdi_to_excel")]
           /\ after_queue' =
                  after_queue
                      \o <<SetStatus(<<"Llenando plantilla Excel...">>), SetProgress(80)>>
                      \o (IF ~excel_result.success
                          THEN <<ShowError(excel_result.error_message), ResetUi>>
                          ELSE <<SetStatus(<<"Completado">>), SetProgress(100),
                                 ShowInfo(success_msg(threads[i].processing_result,
                                                      excel_result)),
                                 EnableDownload, ResetUi>>)
           /\ gui' = IF excel_result.success
                     THEN [gui EXCEPT !.output_file_path = excel_result.output_path]
                     ELSE gui
    /\ clock' = clock + 1
    /\ UNCHANGED <<worker, current_year, events, xl_in, xl_log, dataVars, sheetVars,
                   pipeVars>>

GuiNext ==
    \/ SelectYear
    \/ SelectMonth
    \/ SelectExcelFile
    \/ SelectXmlFiles
    \/ ProcessFiles
    \/ \E i \in DOMAIN threads : ThreadValidateTemplate(i)
    \/ \E i \in DOMAIN threads : ThreadParse(i)
    \/ \E i \in DOMAIN threads : ThreadProcess(i)
    \/ \E i \in DOMAIN threads : ThreadWrite(i)
    \/ DispatchAfter

SpecGui == GuiInit /\ [][GuiNext]_vars

\* C1: whenever process_raw_data returns a result, successful_files +
\* failed_files equals the number of raw records submitted.
C1_CountsAddUp ==
    data_out.called /\ ~data_out.raised =>
        data_out.result.successful_files + data_out.result.failed_files = Len(data_in)

C1_Witness ==
    /\ data_out.called
    /\ ~data_out.raised
    /\ Len(data_in) = 2
    /\ data_out.result.successful_files = 1
    /\ data_out.result.failed_files = 1

\* C2: process_raw_data never propagates an exception to its caller, whatever
\* the shape of a raw record.
C2_NeverRaises == data_out.called => ~data_out.raised

\* the entry names the source: it contains "<file name>: "
EntryNames(entry, file_name) == Contains(entry, file_name \o <<": ">>)

DocParsed(i) ==
    \E k \in 1..Len(pipe_out.raw) : pipe_out.raw[k].file_path = xml_in[i]

DocAccepted(i) ==
    \E k \in 1..Len(pipe_out.outcome.result.processed_data) :
        pipe_out.outcome.result.processed_data[k].file_path = xml_in[i]

DocHasEntry(i) ==
    \E k \in 1..Len(pipe_out.outcome.result.errors) :
        EntryNames(pipe_out.outcome.result.errors[k], PathName(xml_in[i]))

\* C3 as claimed: every input document that is rejected, because it cannot be
\* parsed or because its record fails validation, has at least one entry in
\* the outcome's error list.
C3_EveryRejectedDocumentHasEntry ==
    pipe_out.called =>
        \A i \in 1..Len(xml_in) : ~DocAccepted(i) => DocHasEntry(i)

\* C3 as amended: every document that parses and whose record fails validation
\* has at least one entry in the error list and is counted as failed; a
\* document that cannot be parsed is skipped, has no entry and is counted
\* neither as successful nor as failed.
C3_EveryRejectedRecordHasEntry ==
    pipe_out.called =>
        /\ ~pipe_out.outcome.raised
        /\ \A i \in 1..Len(xml_in) :
              /\ DocParsed(i) /\ ~DocAccepted(i) => DocHasEntry(i)
              /\ ~DocParsed(i) => ~DocHasEntry(i) /\ ~DocAccepted(i)
        /\ pipe_out.outcome.result.failed_files =
              Cardinality({i \in 1..Len(xml_in) : DocParsed(i) /\ ~DocAccepted(i)})
        /\ pipe_out.outcome.result.successful_files =
              Cardinality({i \in 1..Len(xml_in) : DocAccepted(i)})

\* one document accepted, one rejected by validation, one that did not parse
C3_Witness ==
    /\ pipe_out.called
    /\ Len(xml_in) = 3
    /\ \E i, j, k \in 1..3 :
          /\ DocAccepted(i)
          /\ DocParsed(j) /\ ~DocAccepted(j) /\ DocHasEntry(j)
          /\ ~DocParsed(k)

\* C4: for month in 1..12 find_month_tab tries, in this order, the sheet named
\* <abbreviation><year>, the sheet named as the two-digit month, the sheet
\* named as the full month name, and the first sheet whose lower-cased title
\* contains the lower-cased <abbreviation><year>; it returns the first match
\* and None exactly when none matches.
C4_ResolutionOrder ==
    LET names == sheet_in.sheetnames
        m == sheet_in.month
        out == sheet_out.ret
        titles == {names[i] : i \in 1..Len(names)}
        abbr == month_abbreviations[m] \o StrOfNat(sheet_in.year)
        num == IF m < 10 THEN <<"0", DigitChar(m)>> ELSE <<"1", DigitChar(m - 10)>>
        full == month_names[m]
        holds(i) == Contains(Lower(names[i]), Lower(abbr))
    IN  sheet_out.called /\ m \in 1..12 =>
        /\ ~out.raised
        /\ abbr \in titles => out = FoundSheet(abbr)
        /\ abbr \notin titles /\ num \in titles => out = FoundSheet(num)
        /\ abbr \notin titles /\ num \notin titles /\ full \in titles
              => out = FoundSheet(full)
        /\ \A i \in 1..Len(names) :
              /\ {abbr, num, full} \cap titles = {}
              /\ holds(i)
              /\ \A j \in 1..(i - 1) : ~holds(j)
              => out = FoundSheet(names[i])
        /\ out.found <=>
              \/ {abbr, num, full} \cap titles /= {}
              \/ \E i \in 1..Len(names) : holds(i)

\* a workbook holding both "Ene2024" and "01", asked for month 1 of 2024,
\* resolved to "Ene2024" although "01" comes first
C4_Witness ==
    /\ sheet_out.called
    /\ sheet_in.month = 1
    /\ sheet_in.year = 2024
    /\ Len(sheet_in.sheetnames) >= 2
    /\ sheet_in.sheetnames[1] = <<"0", "1">>
    /\ InList(Ene2024, sheet_in.sheetnames)
    /\ sheet_out.ret = FoundSheet(Ene2024)

\* the entries of xl_log whose call reported success
Successes == {i \in 1..Len(xl_log) : xl_log[i].report.success}

\* the sheet of the requested period in the file the i-th call reported
OutputSheet(i) ==
    files[xl_log[i].report.output_path].sheets[
        find_month_tab(files[xl_in.template_path].sheetnames, xl_in.month, xl_in.year).title]

\* the data region of a sheet: the values of the cells at or below the first
\* data row that are not empty
DataRegion(ws) ==
    {<<rc, ws[rc].value>> : rc \in {x \in DOMAIN ws : x[1] >= data_start_row /\ ws[x].value /= PyNone}}

\* what the k-th record puts in column j + 1 (B is column 2)
FieldOf(k, j) == to_excel_row(xl_in.cfdi_data_list[k])[Columns[j]]

\* every record's fifteen fields are in its row
HoldsAllRecords(ws) ==
    \A k \in 1..Len(xl_in.cfdi_data_list) : \A j \in 1..Len(Columns) :
        /\ <<data_start_row + k - 1, j + 1>> \in DOMAIN ws
        /\ ws[<<data_start_row + k - 1, j + 1>>].value = FieldOf(k, j)

\* every cell at or below the first data row that no record writes is empty
HoldsNothingElse(ws) ==
    \A rc \in DOMAIN ws :
        /\ rc[1] >= data_start_row
        /\ ~(/\ rc[1] - data_start_row + 1 \in 1..Len(xl_in.cfdi_data_list)
             /\ rc[2] - 1 \in 1..Len(Columns))
        => ws[rc].value = PyNone

\* C5: after a successful process_cfdi_to_excel the data region of the output
\* holds the new records and nothing else, whatever the template's sheet held,
\* and two successful writes with the same template, records, year and month
\* leave identical data regions.
C5_ClearBeforeWrite ==
    /\ \A i \in Successes :
          /\ xl_log[i].report.output_path \in DOMAIN files
          /\ HoldsAllRecords(OutputSheet(i))
          /\ HoldsNothingElse(OutputSheet(i))
    /\ \A i, j \in Successes : DataRegion(OutputSheet(i)) = DataRegion(OutputSheet(j))

\* two successful writes, to different files, of one record into the sheet
\* that held three data rows
C5_Witness ==
    /\ Len(xl_log) = 2
    /\ Successes = {1, 2}
    /\ xl_log[1].report.output_path /= xl_log[2].report.output_path
    /\ xl_in.template_path = TemplatePath("t")
    /\ xl_in.month = 1
    /\ Len(xl_in.cfdi_data_list) = 1
    /\ DataRegion(TemplateFiles[TemplatePath("t")].sheets[Ene2024]) /= {}
    /\ DataRegion(OutputSheet(1)) = DataRegion(OutputSheet(2))

FailingStep ==
    LET loaded == load_template(TemplateFiles, xl_in.template_path)
        tab == find_month_tab(loaded.workbook.sheetnames, xl_in.month, xl_in.year)
        dir == IF xl_in.output_dir = PyNone THEN PathParent(xl_in.template_path)
               ELSE xl_in.output_dir
    IN  IF ~loaded.ok THEN "load"
        ELSE IF tab.raised THEN "exception"
        ELSE IF ~tab.found THEN "resolve"
        ELSE IF \E k \in 1..Len(xl_in.cfdi_data_list) : \E j \in 1..Len(Columns) :
                    ~CellAccepts(FieldOf(k, j)) THEN "fill"
        ELSE IF dir \notin Directories THEN "save"
        ELSE "none"

\* C7: a report with success = true has a non-empty output_path, an empty
\* error_message and records_processed equal to the number of records passed;
\* a report with success = false has a non-empty error_message, an empty
\* output_path and records_processed 0; and the call fails exactly when one of
\* its steps does, with that step's message.
C7_ReportShape ==
    \A i \in 1..Len(xl_log) :
        LET report == xl_log[i].report
        IN  /\ report.success =>
                  /\ report.output_path /= <<>>
                  /\ report.error_message = <<>>
                  /\ report.records_processed = Len(xl_in.cfdi_data_list)
            /\ ~report.success =>
                  /\ report.error_message /= <<>>
                  /\ report.output_path = <<>>
                  /\ report.records_processed = 0
            /\ report.success <=> FailingStep = "none"
            /\ FailingStep = "load" => report.error_message = LoadFailed
            /\ FailingStep = "resolve" =>
                  report.error_message = PeriodNotFound(xl_in.month, xl_in.year)
            /\ FailingStep = "fill" => report.error_message = FillFailed
            /\ FailingStep = "save" => report.error_message = SaveFailed
            /\ FailingStep = "exception" =>
                  Head(report.error_message) = "Error inesperado: "

\* a call with two records that succeeded, into a directory given explicitly
C7_Witness ==
    /\ Len(xl_log) = 1
    /\ Len(xl_in.cfdi_data_list) = 2
    /\ xl_in.output_dir = <<"o">>
    /\ xl_log[1].report.success
    /\ xl_log[1].report.records_processed = 2
    /\ xl_log[1].report.output_path \in DOMAIN files

\* C8: two successful calls with the same template, year, month and output
\* directory never resolve to the same output path.
C8_OutputPathNeverReused ==
    \A i, j \in Successes : i /= j =>
        xl_log[i].report.output_path /= xl_log[j].report.output_path

\* the steps of a run, in the order the worker calls them
Steps ==
    <<"validate_template_structure", "parse_multiple_files", "process_raw_data",
      "process_cfdi_to_excel">>

\* the callbacks of one kind the worker has posted so far, run or pending
Posted(kind) == SelectSeq(gui.dialogs \o after_queue, LAMBDA cb : cb.kind = kind)

\* the template the worker read is valid, and the documents it read parse
RunTemplateValid ==
    validate_template_structure(RunFiles, worker.excel_template, current_year).valid

RunParsed == parse_multiple_files(RunFiles, worker.xml_files)

\* C9: the worker calls validate_template_structure, parse_multiple_files,
\* process_raw_data and process_cfdi_to_excel in this order and each at most
\* once; it stops at the first failing step (template invalid, no document
\* parsed, write failed), after which no later step is called; a failed run
\* reports exactly one error and a successful run none; nothing is written
\* unless the writer was called.
C9_StepsInOrder ==
    /\ \E n \in 0..Len(Steps) : worker.calls = SubSeq(Steps, 1, n)
    /\ Len(Posted("showerror")) <= 1
    /\ Len(Posted("showerror")) = 1 => worker.pc = "done"
    /\ worker.calls /= Steps => files = RunFiles
    /\ worker.pc = "done" =>
          /\ ~RunTemplateValid =>
                worker.calls = SubSeq(Steps, 1, 1) /\ Len(Posted("showerror")) = 1
          /\ RunTemplateValid /\ RunParsed = <<>> =>
                worker.calls = SubSeq(Steps, 1, 2) /\ Len(Posted("showerror")) = 1
          /\ RunTemplateValid /\ RunParsed /= <<>> =>
                /\ worker.calls = Steps
                /\ Len(Posted("showerror")) = 1 <=> ~worker.excel_result.success
                /\ Len(Posted("showinfo")) = 1 <=> worker.excel_result.success

\* a run that stopped after parsing because no document parsed: two steps
\* called, one error shown, the button enabled again, nothing written
C9_Witness ==
    /\ worker.pc = "done"
    /\ worker.calls = <<"validate_template_structure", "parse_multiple_files">>
    /\ after_queue = <<>>
    /\ Len(gui.dialogs) = 1
    /\ gui.dialogs[1] = ShowError(NoDocuments)
    /\ gui.process_button = "normal"
    /\ files = RunFiles

\* no sheet of the template the worker read matches any strategy of
\* find_month_tab for the month and year of the run
RunPeriodMissing ==
    LET loaded == load_template(RunFiles, worker.excel_template)
        names == loaded.workbook.sheetnames
        abbr == month_abbreviations[worker.month] \o StrOfNat(worker.year)
    IN  /\ loaded.ok
        /\ \A i \in 1..Len(names) :
              /\ names[i] /= abbr
              /\ names[i] /= Pad2(worker.month)
              /\ names[i] /= month_names[worker.month]
              /\ ~Contains(Lower(names[i]), Lower(abbr))

RecordAccepted(raw) ==
    /\ raw.isdict
    /\ ~validate(from_dict(raw.d)).raised
    /\ validate(from_dict(raw.d)).errors = <<>>

AcceptedRecords(raws) ==
    LET acc == SelectSeq(raws, RecordAccepted)
    IN  [i \in 1..Len(acc) |-> from_dict(acc[i].d)]

\* C11: when process_raw_data returns, processed_data holds exactly the
\* records for which validate() returned no error, in input order;
\* successful_files is its length and every other record is counted once in
\* failed_files.
C11_AcceptedIffValid ==
    data_out.called /\ ~data_out.raised =>
        /\ data_out.result.processed_data = AcceptedRecords(data_in)
        /\ data_out.result.successful_files = Len(data_out.result.processed_data)
        /\ data_out.result.failed_files = Len(data_in) - Len(AcceptedRecords(data_in))

C11_Witness ==
    /\ data_out.called
    /\ ~data_out.raised
    /\ Len(data_in) = 2
    /\ ~RecordAccepted(data_in[1])
    /\ validate(from_dict(data_in[1].d)).errors /= <<>>
    /\ RecordAccepted(data_in[2])
    /\ data_out.result.processed_data = <<from_dict(data_in[2].d)>>
    /\ data_out.result.failed_files = 1

\* A raw record as the parser produces them: a dict whose total and subtotal
\* are strings.
StrRecord(raw) ==
    /\ raw.isdict
    /\ IsStr(DictGet(raw.d, "G", <<>>))
    /\ IsStr(DictGet(raw.d, "D", <<>>))

\* The six rules, each on its own: the messages a field value calls for.
RequiredMessage(v, msg) == IF v = <<>> THEN <<msg>> ELSE <<>>

AmountMessage(v, negative, invalid) ==
    IF v = <<>> THEN <<>>
    ELSE IF FloatOutcome(v) /= "ok" THEN <<invalid>>
    ELSE IF FloatCents(v) < 0 THEN <<negative>>
    ELSE <<>>

RuleMessages(d) ==
       RequiredMessage(DictGet(d, "B", <<>>), "Fecha es requerida")
    \o RequiredMessage(DictGet(d, "G", <<>>), "Total es requerido")
    \o RequiredMessage(DictGet(d, "J", <<>>), "RFC del emisor es requerido")
    \o RequiredMessage(DictGet(d, "M", <<>>), "RFC del receptor es requerido")
    \o AmountMessage(DictGet(d, "G", <<>>), "Total no puede ser negativo",
                     "Total debe ser un número válido")
    \o AmountMessage(DictGet(d, "D", <<>>), "Subtotal no puede ser negativo",
                     "Subtotal debe ser un número válido")

\* the entries the rules call for, records in input order
RECURSIVE RuleEntries(_)
RuleEntries(raws) ==
    IF raws = <<>> THEN <<>>
    ELSE LET d == Head(raws).d
             msgs == RuleMessages(d)
         IN  [i \in 1..Len(msgs) |-> DictGet(d, "file_name", <<>>) \o <<": ", msgs[i]>>]
                 \o RuleEntries(Tail(raws))

\* C12: for records with string fields, the errors list of process_raw_data
\* is, record by record in input order, one entry per failing rule in the
\* order date required, total required, sender RFC required, receiver RFC
\* required, total numeric and non-negative, subtotal numeric and
\* non-negative; the two numeric rules apply only to a non-empty value and
\* no rule hides a later one.
C12_AllRulesInOrder ==
    /\ data_out.called
    /\ ~data_out.raised
    /\ \A i \in 1..Len(data_in) : StrRecord(data_in[i])
    => data_out.result.errors = RuleEntries(data_in)

C12_Witness ==
    /\ data_out.called
    /\ ~data_out.raised
    /\ Len(data_in) = 2
    /\ \A i \in 1..2 : StrRecord(data_in[i])
    /\ data_out.result.errors =
           << <<"e", ": ", "Fecha es requerida">>,
              <<"e", ": ", "RFC del emisor es requerido">>,
              <<"e", ": ", "RFC del receptor es requerido">>,
              <<"e", ": ", "Total no puede ser negativo">>,
              <<"e", ": ", "Subtotal no puede ser negativo">>,
              <<"f", ": ", "Total debe ser un número válido">>,
              <<"f", ": ", "Subtotal debe ser un número válido">> >>

\* A record whose date, total, sender RFC and receiver RFC are all empty.
FourMissing(raw) ==
    /\ StrRecord(raw)
    /\ \A k \in {"B", "G", "J", "M"} : DictGet(raw.d, k, <<>>) = <<>>

RequiredFour ==
    << "Fecha es requerida", "Total es requerido",
       "RFC del emisor es requerido", "RFC del receptor es requerido" >>

\* the subtotal is present and is not a non-negative number
SubtotalFails(raw) ==
    LET v == DictGet(raw.d, "D", <<>>)
    IN  v /= <<>> /\ (FloatOutcome(v) /= "ok" \/ FloatCents(v) < 0)

EntryOf(raw, msg) == DictGet(raw.d, "file_name", <<>>) \o <<": ", msg>>

\* C13 as stated: a record whose date, total, sender RFC and receiver RFC are
\* all empty yields exactly the four "required" messages, no fewer and no more.
C13_ExactlyFour ==
    /\ data_out.called
    /\ ~data_out.raised
    /\ \A i \in 1..Len(data_in) : FourMissing(data_in[i])
    => /\ Len(data_out.result.errors) = 4 * Len(data_in)
       /\ \A i \in 1..Len(data_in) : \A k \in 1..4 :
              data_out.result.errors[4 * (i - 1) + k] = EntryOf(data_in[i], RequiredFour[k])

\* where the entries of record i start in a list of FourMissing records
FourMissingOffset(raws, i) ==
    4 * (i - 1) + Cardinality({j \in 1..(i - 1) : SubtotalFails(raws[j])})

\* C13: a record whose date, total, sender RFC and receiver RFC are all empty
\* yields the four "required" messages, in order, and after them one subtotal
\* message exactly when its subtotal is non-empty and is not a non-negative
\* number: four messages or five, never fewer than four.
C13_FourRequiredPlusSubtotal ==
    /\ data_out.called
    /\ ~data_out.raised
    /\ \A i \in 1..Len(data_in) : FourMissing(data_in[i])
    => /\ Len(data_out.result.errors) = FourMissingOffset(data_in, Len(data_in) + 1)
       /\ \A i \in 1..Len(data_in) :
              LET at == FourMissingOffset(data_in, i)
              IN  /\ \A k \in 1..4 :
                         data_out.result.errors[at + k] = EntryOf(data_in[i], RequiredFour[k])
                  /\ SubtotalFails(data_in[i]) =>
                         data_out.result.errors[at + 5] \in
                             { EntryOf(data_in[i], "Subtotal no puede ser negativo"),
                               EntryOf(data_in[i], "Subtotal debe ser un número válido") }

C13_Witness ==
    /\ data_out.called
    /\ ~data_out.raised
    /\ Len(data_in) = 2
    /\ FourMissing(data_in[1]) /\ ~SubtotalFails(data_in[1])
    /\ FourMissing(data_in[2]) /\ SubtotalFails(data_in[2])
    /\ Len(data_out.result.errors) = 9
    /\ data_out.result.errors[9] = <<"h", ": ", "Subtotal debe ser un número válido">>

\* s begins with p
StartsWith(s, p) == Len(s) >= Len(p) /\ SubSeq(s, 1, Len(p)) = p

\* C14 as stated: every entry of errors is "<file_name>: <message>" for the
\* file_name of one of the records, whether it reports a validation failure
\* or an internal error.
C14_EveryEntryNameFirst ==
    data_out.called /\ ~data_out.raised =>
        \A k \in 1..Len(data_out.result.errors) :
            \E i \in 1..Len(data_in) :
                StartsWith(data_out.result.errors[k],
                           DictGet(data_in[i].d, "file_name", <<>>) \o <<": ">>)

\* the entry reports one of the validation messages of raw
IsValidationEntry(e, raw) ==
    LET v == validate(from_dict(raw.d))
    IN  /\ ~v.raised
        /\ \E m \in 1..Len(v.errors) : e = EntryOf(raw, v.errors[m])

\* the entry reports an exception raised while raw was processed
IsExceptionEntry(e, raw) ==
    /\ validate(from_dict(raw.d)).raised
    /\ StartsWith(e, <<"Error procesando ">>
                         \o DictGet(raw.d, "file_name", <<"archivo">>) \o <<": ">>)
    /\ Len(e) = Len(DictGet(raw.d, "file_name", <<"archivo">>)) + 3

\* C14: every entry of errors is either "<file_name>: <message>" for a
\* validation message of one of the records, or "Error procesando <name>:
\* <exception text>" for a record whose processing raised, <name> being its
\* file_name or "archivo" when it has none; every such record has its entry.
C14_TwoEntryForms ==
    data_out.called /\ ~data_out.raised =>
        /\ \A k \in 1..Len(data_out.result.errors) :
               \E i \in 1..Len(data_in) :
                   \/ IsValidationEntry(data_out.result.errors[k], data_in[i])
                   \/ IsExceptionEntry(data_out.result.errors[k], data_in[i])
        /\ \A i \in 1..Len(data_in) :
               validate(from_dict(data_in[i].d)).raised =>
                   \E k \in 1..Len(data_out.result.errors) :
                       IsExceptionEntry(data_out.result.errors[k], data_in[i])

C14_Witness ==
    /\ data_out.called
    /\ ~data_out.raised
    /\ Len(data_in) = 2
    /\ data_out.result.errors =
           << <<"Error procesando ", "g", ": ", "float() argument">>,
              <<"Error procesando ", "archivo", ": ", "float() argument">> >>

\* the document at path is well-formed markup
WellFormed(path) == path \in DOMAIN XmlFiles /\ XmlFiles[path].kind = "xml"

\* the records returned for path
RecordsOf(path) == {i \in 1..Len(pipe_out.raw) : pipe_out.raw[i].file_path = path}

\* the document has the attribute a mapping entry reads: on the root itself,
\* or on a child element of that local name
HasAttribute(root, m) ==
    IF m.elem = "cfdi:Comprobante" THEN m.attr \in DOMAIN root.attrs
    ELSE \E i \in 1..Len(root.children) :
             /\ root.children[i].tag = LocalName(m.elem)
             /\ m.attr \in DOMAIN root.children[i].attrs

\* C15: every well-formed document yields a record with the 15 columns B..P,
\* file_path and file_name; a field whose element or attribute is absent is
\* the empty string while the root attributes that are present are still
\* extracted; only a document that cannot be opened or parsed yields none.
C15_MissingFieldIsEmpty ==
    pipe_out.called =>
        \A p \in 1..Len(xml_in) :
            LET path == xml_in[p]
            IN  IF ~WellFormed(path) THEN RecordsOf(path) = {}
                ELSE /\ Cardinality(RecordsOf(path)) = 1
                     /\ \A i \in RecordsOf(path) :
                            LET rec == pipe_out.raw[i]
                                root == XmlFiles[path].root
                            IN  /\ DOMAIN rec = ColumnSet \cup {"file_path", "file_name"}
                                /\ Cardinality(ColumnSet) = 15
                                /\ rec.file_name = <<path[Len(path) - 1], path[Len(path)]>>
                                /\ \A k \in 1..Len(CFDI_MAPPING) :
                                       LET m == CFDI_MAPPING[k]
                                       IN  /\ ~HasAttribute(root, m) => rec[m.col] = <<>>
                                           /\ m.elem = "cfdi:Comprobante" /\ HasAttribute(root, m)
                                                  => rec[m.col] = root.attrs[m.attr]

C15_Witness ==
    /\ pipe_out.called
    /\ xml_in = <<XmlPath("m"), XmlPath("c"), XmlPath("n")>>
    /\ Len(pipe_out.raw) = 1
    /\ pipe_out.raw[1].B = <<"2", "4", "-", "0", "1">>
    /\ \A k \in ColumnSet \ {"B"} : pipe_out.raw[1][k] = <<>>
    /\ pipe_out.raw[1].file_name = <<"c", ".xml">>

\* C16: the records parse_multiple_files returns are those of the input
\* documents that parse, one each, in the order of the input; a document that
\* fails is skipped and the documents after it are still extracted.
C16_ParsedSubsequenceInOrder ==
    pipe_out.called =>
        /\ [i \in 1..Len(pipe_out.raw) |-> pipe_out.raw[i].file_path]
               = SelectSeq(xml_in, WellFormed)
        /\ Len(pipe_out.raw) <= Len(xml_in)

C16_Witness ==
    /\ pipe_out.called
    /\ xml_in = <<XmlPath("f"), XmlPath("m"), XmlPath("a")>>
    /\ Len(pipe_out.raw) = 2
    /\ pipe_out.raw[1].file_path = XmlPath("f")
    /\ pipe_out.raw[2].file_path = XmlPath("a")

\* the child of root with a local name, in the namespace of the root
ChildInRootNamespace(root, tag) ==
    {i \in 1..Len(root.children) :
        root.children[i].tag = tag /\ root.children[i].ns = root.ns}

\* an invoice whose Emisor, Receptor and Impuestos are in its own namespace
CompleteInvoice(path) ==
    /\ WellFormed(path)
    /\ XmlFiles[path].root.tag = "Comprobante"
    /\ \A tag \in {"Emisor", "Receptor", "Impuestos"} :
           Cardinality(ChildInRootNamespace(XmlFiles[path].root, tag)) = 1

ChildAttribute(path, tag, attr) ==
    LET root == XmlFiles[path].root
    IN  root.children[CHOOSE i \in ChildInRootNamespace(root, tag) : TRUE].attrs[attr]

\* C17: for an invoice whose Emisor, Receptor and Impuestos children are in
\* the document's cfdi namespace, cfd/3 included, the record carries
\* J = Emisor Rfc, K = Emisor Nombre, M = Receptor Rfc and
\* P = TotalImpuestosTrasladados, and the document is counted as successful.
C17_ChildAttributesExtracted ==
    pipe_out.called =>
        \A p \in 1..Len(xml_in) :
            CompleteInvoice(xml_in[p]) =>
                /\ \A i \in RecordsOf(xml_in[p]) :
                       /\ pipe_out.raw[i].J = ChildAttribute(xml_in[p], "Emisor", "Rfc")
                       /\ pipe_out.raw[i].K = ChildAttribute(xml_in[p], "Emisor", "Nombre")
                       /\ pipe_out.raw[i].M = ChildAttribute(xml_in[p], "Receptor", "Rfc")
                       /\ pipe_out.raw[i].P =
                              ChildAttribute(xml_in[p], "Impuestos", "TotalImpuestosTrasladados")
                /\ \E k \in 1..Len(pipe_out.outcome.result.processed_data) :
                       pipe_out.outcome.result.processed_data[k].file_path = xml_in[p]

\* the sum, in hundredths, of the totals of the accepted records of a list
RECURSIVE SumOfAcceptedTotals(_)
SumOfAcceptedTotals(raws) ==
    IF raws = <<>> THEN 0
    ELSE (IF RecordAccepted(Head(raws)) THEN FloatCents(Head(raws).d.G) ELSE 0)
             + SumOfAcceptedTotals(Tail(raws))

\* C18: when process_raw_data returns, total_amount is the sum of the total
\* field over the accepted records; the total of a rejected record is not in
\* it.
C18_TotalOverAcceptedOnly ==
    data_out.called /\ ~data_out.raised =>
        data_out.result.total_amount = SumOfAcceptedTotals(data_in)

\* accepted totals of 11.60 and 12.60 around a rejected record whose total is 2
C18_Witness ==
    /\ data_out.called
    /\ ~data_out.raised
    /\ Len(data_in) = 3
    /\ RecordAccepted(data_in[1])
    /\ ~RecordAccepted(data_in[2])
    /\ DictGet(data_in[2].d, "G", <<>>) = <<"2">>
    /\ RecordAccepted(data_in[3])
    /\ data_out.result.successful_files = 2
    /\ data_out.result.total_amount = 1160 + 1260

\* the dates of the accepted records of the input
AcceptedDates ==
    {data_in[i].d.B : i \in {j \in 1..Len(data_in) : RecordAccepted(data_in[j])}}

\* C19: when process_raw_data returns, date_range.start is the least and
\* date_range.end the greatest, in string order, of the dates of the accepted
\* records; both are the empty string when no record is accepted, and the
\* date of a rejected record plays no part.
C19_DateRangeOverAcceptedOnly ==
    data_out.called /\ ~data_out.raised =>
        IF AcceptedDates = {}
        THEN data_out.result.date_range = [start |-> <<>>, end |-> <<>>]
        ELSE /\ data_out.result.date_range.start \in AcceptedDates
             /\ data_out.result.date_range.end \in AcceptedDates
             /\ \A d \in AcceptedDates :
                    /\ d = data_out.result.date_range.start
                           \/ StrLess(data_out.result.date_range.start, d)
                    /\ d = data_out.result.date_range.end
                           \/ StrLess(d, data_out.result.date_range.end)

\* the least date in the middle, the greatest first, and a rejected record
\* whose date lies outside the range
C19_Witness ==
    /\ data_out.called
    /\ ~data_out.raised
    /\ Len(data_in) = 3
    /\ RecordAccepted(data_in[1])
    /\ DictGet(data_in[1].d, "B", <<>>) = <<"2", "4", "-", "0", "4">>
    /\ RecordAccepted(data_in[2])
    /\ DictGet(data_in[2].d, "B", <<>>) = <<"2", "3", "-", "1", "1">>
    /\ ~RecordAccepted(data_in[3])
    /\ DictGet(data_in[3].d, "B", <<>>) = <<"2", "4", "-", "0", "9">>
    /\ data_out.result.date_range =
           [start |-> <<"2", "3", "-", "1", "1">>, end |-> <<"2", "4", "-", "0", "4">>]

\* the positions of the accepted records that carry a currency code
WithCurrency ==
    {i \in 1..Len(data_in) :
        RecordAccepted(data_in[i]) /\ DictGet(data_in[i].d, "F", <<>>) /= <<>>}

\* C20: when process_raw_data returns, currency is the currency code of the
\* last accepted record, in input order, that carries one, and the empty
\* string when there is none; a rejected record and an accepted record without
\* a code leave it as it was.
C20_LastCurrencyWins ==
    data_out.called /\ ~data_out.raised =>
        IF WithCurrency = {} THEN data_out.result.currency = <<>>
        ELSE data_out.result.currency =
                 data_in[CHOOSE i \in WithCurrency : \A j \in WithCurrency : j <= i].d.F

\* USD, then MXN, then a rejected record in EUR
C20_Witness ==
    /\ data_out.called
    /\ ~data_out.raised
    /\ Len(data_in) = 3
    /\ WithCurrency = {1, 2}
    /\ data_in[1].d.F = <<"U", "S", "D">>
    /\ data_in[2].d.F = <<"M", "X", "N">>
    /\ DictGet(data_in[3].d, "F", <<>>) = <<"E", "U", "R">>
    /\ data_out.result.currency = <<"M", "X", "N">>

\* C21: for a raw record carrying all 15 columns, from_dict followed by
\* to_excel_row gives back, column by column, the string the record held,
\* and file_path and file_name are carried over as they were.
C21_RoundTrip ==
    row_out.called /\ ColumnSet \subseteq DOMAIN row_in =>
        /\ DOMAIN row_out.row = ColumnSet
        /\ \A col \in ColumnSet : row_out.row[col] = row_in[col]
        /\ row_out.file_path = row_in.file_path
        /\ row_out.file_name = row_in.file_name

\* an amount with a leading zero and trailing zeros, a total with blanks
C21_Witness ==
    /\ row_out.called
    /\ ColumnSet \subseteq DOMAIN row_in
    /\ row_in.D = <<"0", "1", "0", ".", "5", "0">>
    /\ row_out.row.D = <<"0", "1", "0", ".", "5", "0">>
    /\ row_out.row.G = <<" ", "1", ".", "0", "0", "0">>
    /\ row_out.row.J = <<"A", "A", "A">>
    /\ row_out.row.M = <<"X", "E", "X">>
    /\ row_out.file_name = <<"A", " ", ".XML">>

\* the template the check was handed can be loaded
TplLoadable == tpl_in \in DOMAIN files /\ files[tpl_in].kind = "xlsx"

\* the months of a year that find_month_tab resolves on the template
ResolvedMonths(year) ==
    {month \in 1..12 : find_month_tab(files[tpl_in].sheetnames, month, year).found}

MonthWarning(month) == <<"Pestaña del mes ">> \o StrOfInt(month) \o <<" no encontrada">>

C22_Result ==
    tpl_out.called =>
        IF ~TplLoadable
        THEN ~tpl_out.result.valid /\ tpl_out.result.errors /= <<>>
        ELSE /\ tpl_out.result.valid <=> ResolvedMonths(current_year) /= {}
             /\ tpl_out.result.valid <=> tpl_out.result.errors = <<>>
             /\ Cardinality(ResolvedMonths(current_year)) + Len(tpl_out.result.warnings) = 12
             /\ \A month \in (1..12) \ ResolvedMonths(current_year) :
                    \E i \in 1..Len(tpl_out.result.warnings) :
                        tpl_out.result.warnings[i] = MonthWarning(month)

\* C22: validate_template_structure leaves the file system as it was; for a
\* template that loads it returns valid exactly when find_month_tab resolves
\* one of the 12 months of the current year, with one warning per month
\* that does not resolve and an empty errors list exactly when valid; for a
\* template that does not load it returns not valid with an error.
C22_ValidIffSomeMonthResolves == [][files' = files]_vars /\ []C22_Result

\* one month of the current year resolves, eleven warnings
C22_Witness ==
    /\ tpl_out.called
    /\ TplLoadable
    /\ current_year = 2024
    /\ ResolvedMonths(2024) = {1}
    /\ tpl_out.result.valid
    /\ Len(tpl_out.result.warnings) = 11
    /\ tpl_out.result.warnings[1] = MonthWarning(2)
    /\ tpl_out.result.warnings[11] = MonthWarning(12)

\* C23: for the properly structured template of the fixture, twelve sheets
\* Ene2024 ... Dic2024, validate_template_structure returns valid with an
\* empty errors list and a month_tabs_found entry.
C23_FixtureTemplateIsValid ==
    /\ tpl_out.called
    /\ TplLoadable
    /\ files[tpl_in].sheetnames = FixtureSheets
    => /\ tpl_out.result.valid
       /\ tpl_out.result.errors = <<>>
       /\ "month_tabs_found" \in DOMAIN tpl_out.result

\* every record handed to the writer passed validate()
RecordsValidated ==
    \A k \in 1..Len(xl_in.cfdi_data_list) :
        validate(xl_in.cfdi_data_list[k]) = [raised |-> FALSE, errors |-> <<>>]

\* the template loads and the requested period resolves on it
PeriodResolves ==
    /\ xl_in.template_path \in DOMAIN TemplateFiles
    /\ TemplateFiles[xl_in.template_path].kind = "xlsx"
    /\ find_month_tab(TemplateFiles[xl_in.template_path].sheetnames,
                      xl_in.month, xl_in.year).found

\* the directory the output goes to exists
OutputDirExists ==
    (IF xl_in.output_dir = PyNone THEN PathParent(xl_in.template_path)
     ELSE xl_in.output_dir) \in Directories

\* the i-th call succeeded for all n records and its output holds record k
\* in row data_start_row + k - 1, field by field, and nothing below them
WroteEveryRecord(i) ==
    /\ xl_log[i].report.success
    /\ xl_log[i].report.records_processed = Len(xl_in.cfdi_data_list)
    /\ HoldsAllRecords(OutputSheet(i))
    /\ Len(xl_in.cfdi_data_list) = 0 => DataRegion(OutputSheet(i)) = {}

AmountColumns == {column_index_from_string(c) : c \in {"D", "E", "G", "P"}}

\* the value is a non-empty string that is a number other than zero
NonZeroAmount(value) ==
    /\ IsStr(value)
    /\ value /= <<>>
    /\ FloatOutcome(value) = "ok"
    /\ FloatCents(value) /= 0

\* the sheet of the requested period as the template holds it
TemplateSheet ==
    TemplateFiles[xl_in.template_path].sheets[
        find_month_tab(TemplateFiles[xl_in.template_path].sheetnames,
                       xl_in.month, xl_in.year).title]

\* C25 as stated: after a write, a cell of an amount column in the data
\* region carries the format "#,##0.00" if and only if its value is non-empty
\* and numerically non-zero, whatever the sheet held before.
C25_FormatIffNonZeroAmount ==
    \A i \in Successes :
        \A rc \in DOMAIN OutputSheet(i) :
            rc[1] >= data_start_row /\ rc[2] \in AmountColumns =>
                (OutputSheet(i)[rc].number_format = NumberFormat
                     <=> NonZeroAmount(OutputSheet(i)[rc].value))

\* C25: after a write, a cell of an amount column whose written value is
\* non-empty and numerically non-zero carries the format "#,##0.00"; every
\* other cell of the data region carries the format the template's sheet gave
\* it, which the write neither applies nor removes.
C25_FormatAppliedNeverRemoved ==
    \A i \in Successes :
        \A rc \in DOMAIN OutputSheet(i) :
            rc[1] >= data_start_row =>
                OutputSheet(i)[rc].number_format =
                    IF rc[2] \in AmountColumns /\ NonZeroAmount(OutputSheet(i)[rc].value)
                    THEN NumberFormat
                    ELSE Cell(TemplateSheet, rc).number_format

\* amounts 11.60 and 10 get the format in row 4; in row 5 the subtotal 0.0
\* stays plain and the total 0 sits in a cell the template had formatted
C25_Witness ==
    /\ Len(xl_log) = 1
    /\ Successes = {1}
    /\ xl_in.template_path = TemplatePath("t")
    /\ xl_in.month = 1
    /\ Len(xl_in.cfdi_data_list) = 2
    /\ OutputSheet(1)[<<4, 7>>] = [value |-> <<"1", "1", ".", "6", "0">>, number_format |-> NumberFormat]
    /\ OutputSheet(1)[<<4, 4>>] = [value |-> <<"1", "0">>, number_format |-> NumberFormat]
    /\ OutputSheet(1)[<<5, 4>>] = [value |-> <<"0", ".", "0">>, number_format |-> General]
    /\ OutputSheet(1)[<<5, 7>>] = [value |-> <<"0">>, number_format |-> NumberFormat]

\* the title of the sheet the requested period resolves to
ResolvedTitle ==
    find_month_tab(TemplateFiles[xl_in.template_path].sheetnames,
                   xl_in.month, xl_in.year).title

\* the cells of a sheet above the first data row
AboveData(ws) == {rc \in DOMAIN ws : rc[1] < data_start_row}

\* C26: the workbook a successful write persists has the sheets of the
\* template in the same order; every sheet other than the resolved one is
\* cell for cell the template's, and so are the rows above data_start_row of
\* the resolved sheet, its header row included.
C26_OnlyDataRegionChanges ==
    \A i \in Successes :
        LET out == files[xl_log[i].report.output_path]
            tpl == TemplateFiles[xl_in.template_path]
        IN  /\ out.sheetnames = tpl.sheetnames
            /\ DOMAIN out.sheets = DOMAIN tpl.sheets
            /\ \A title \in DOMAIN tpl.sheets \ {ResolvedTitle} :
                   out.sheets[title] = tpl.sheets[title]
            /\ AboveData(out.sheets[ResolvedTitle]) = AboveData(tpl.sheets[ResolvedTitle])
            /\ \A rc \in AboveData(tpl.sheets[ResolvedTitle]) :
                   out.sheets[ResolvedTitle][rc] = tpl.sheets[ResolvedTitle][rc]

\* two records written into the second sheet: its data region changed, its
\* header row and the first sheet did not
C26_Witness ==
    /\ Len(xl_log) = 1
    /\ Successes = {1}
    /\ xl_in.template_path = TemplatePath("t")
    /\ xl_in.month = 2
    /\ Len(xl_in.cfdi_data_list) = 2
    /\ OutputSheet(1) /= HeaderCells
    /\ OutputSheet(1)[<<3, 2>>] = TextCell(<<"Fecha">>)
    /\ files[xl_log[1].report.output_path].sheets[Ene2024] = UsedCells
    /\ files[xl_log[1].report.output_path].sheetnames = <<Ene2024, Feb2024, Dic2024>>

(***************************************************************************)
(* C29                                                                     *)
(***************************************************************************)
\* C29: a call of process_cfdi_to_excel with a month outside 1..12 reports
\* failure and leaves the file system as it was: no sheet resolved, no cell
\* cleared or written, no file persisted.
C29_OutOfRangeMonthFails ==
    xl_in.month \notin 1..12 =>
        /\ \A i \in 1..Len(xl_log) : ~xl_log[i].report.success
        /\ files = TemplateFiles

(***************************************************************************)
(* C27                                                                     *)
(***************************************************************************)
\* C27: a step of a worker thread leaves every field of the front-end as it
\* was and takes none of the thread's inputs from it: the template path and
\* the selection the thread works on are the ones it was started with.
C27_WorkerNeverTouchesFrontEnd ==
    [][\A i \in DOMAIN threads :
          (i \in DOMAIN threads' /\ threads'[i] /= threads[i]) =>
              /\ gui' = gui
              /\ threads'[i].excel_template = threads[i].excel_template
              /\ threads'[i].xml_files = threads[i].xml_files]_vars

(***************************************************************************)
(* C28                                                                     *)
(***************************************************************************)
\* the runs in progress: the threads still running and the finished ones
\* whose _reset_ui is still waiting in the queue
ActiveRuns ==
    Cardinality({i \in DOMAIN threads : threads[i].pc /= "done"})
        + Len(SelectSeq(after_queue, LAMBDA cb : cb = ResetUi))

\* C28: at most one run is in progress at any time, and while one is, the
\* process button is disabled.
C28_AtMostOneWorker ==
    /\ ActiveRuns <= 1
    /\ ActiveRuns = 1 => gui.process_button = "disabled"

(***************************************************************************)
(* C30                                                                     *)
(***************************************************************************)
ResetsPending == Len(SelectSeq(after_queue, LAMBDA cb : cb = ResetUi))

\* one _reset_ui per run: none is posted while the worker runs; when the
\* worker has returned exactly one is waiting, last in the queue, until the
\* main loop runs it; after that the button is enabled and nothing is left
C30_OneResetPerRun ==
    /\ gui.process_button = "disabled" =>
           IF worker.pc = "done"
           THEN ResetsPending = 1 /\ Last(after_queue) = ResetUi
           ELSE ResetsPending = 0
    /\ gui.process_button = "normal" => worker.pc = "done" /\ after_queue = <<>>

\* "Completado" and progress 100 are posted only by a worker whose write
\* succeeded and left its file
C30_CompletedOnlyAfterWrite ==
    (\/ gui.status_var = <<"Completado">>
     \/ gui.progress_var = 100
     \/ InList(SetStatus(<<"Completado">>), after_queue)
     \/ InList(SetProgress(100), after_queue))
        => /\ worker.pc = "done"
           /\ worker.excel_result.success
           /\ worker.excel_result.output_path \in DOMAIN files

\* the front-end is back in the ready state and the run is over
C30_Ready ==
    /\ worker.pc = "done"
    /\ after_queue = <<>>
    /\ gui.process_button = "normal"
    /\ gui.status_var = <<"Listo para procesar">>
    /\ gui.progress_var = 0

\* C30: every run terminates, on the success path or on a failure path, and
\* is followed by exactly one _reset_ui, after which the front-end stays
\* ready: process button enabled, progress 0; progress 100 and "Completado"
\* are posted only after a successful write.
C30_EveryRunEndsWithOneReset ==
    /\ []C30_OneResetPerRun
    /\ []C30_CompletedOnlyAfterWrite
    /\ <>[]C30_Ready

\* a run that failed in the write step, after its error box and its reset
C30_Witness ==
    /\ C30_Ready
    /\ worker.calls = <<"validate_template_structure", "parse_multiple_files",
                        "process_raw_data", "process_cfdi_to_excel">>
    /\ ~worker.excel_result.success
    /\ Len(gui.dialogs) = 1
    /\ gui.dialogs[1].kind = "showerror"

====
